---- MODULE Spec2Model ----
(***************************************************************************)
(* Model of the PostHog -> Braze export path of src/index.ts:              *)
(*   - the export shaper  _generateBrazeRequestBody  (lines 157-198),      *)
(*   - the export batcher and dispatcher  exportEvents  (lines 200-257),   *)
(*   - the single-event hook  onEvent  (lines 1101-1169),                  *)
(*   - the two variants of  fetchBraze  (lines 53-100 and 326-367).        *)
(*                                                                         *)
(* JavaScript strings are sequences of one-character strings, so that      *)
(* String.prototype.split is computed and not assumed.  Objects are        *)
(* functions from keys (strings) to values.  An optional value is a record *)
(* with a  defined  flag.                                                  *)
(***************************************************************************)
EXTENDS Integers, Sequences, FiniteSets, TLC

VARIABLES
    config,         \* meta.config: the three export settings
    pluginEvent,    \* the inbound PluginEvent handed to the shaper
    body,           \* the BrazeUsersTrackBody the shaper returned (or NoBody)
    acc,            \* exportEvents: accumulator of the reduce (the batches)
    curr,           \* exportEvents: the shaped entry the reduce handled last
    op,             \* which export operation is running ("idle" if none)
    variant,        \* which fetchBraze variant setupPlugin installed
    requests,       \* the /users/track requests of the running operation
    result,         \* outcome of the operation as seen by its caller
    now,            \* the instant new Date() reads
    timezoneOffset, \* minutes the process's local time is behind UTC
    detailsResponse, \* isBrazeObjectActive: what the details fetch returned
    active,         \* isBrazeObjectActive: the boolean it returned
    paginateAfter,  \* paginateItems: the page-size threshold it was given
    currentPage,    \* paginateItems: index of the page fetched last
    items,          \* paginateItems: the items gathered so far
    currentBatch,   \* paginateItems: the page the callback returned last
    runCycle,       \* paginateItems: whether the loop goes round again
    calls,          \* the page indices the callback was called with, in order
    fetched,        \* the pages the callback returned, in order
    httpResponse,   \* fetchBraze: what the remote end answered
    settlement,     \* fetchBraze: how the promise it returned settled
    errorsLogged,   \* fetchBraze: whether it logged the body's errors field
    formatted,      \* the string ISODateString returned (its numeric fields)
    triggered,      \* the per-item jobs triggered with runNow, in order
    jobState,       \* where each triggered job stands, or how it ended
    brazeCalls,     \* the Braze requests the per-item jobs issued, in order
    answers,        \* how the Braze requests of the per-item jobs settled
    captured,       \* the capture calls the per-item jobs made, in order
    dataSeriesIn,   \* the data series handed to a transform function
    postHogEvents   \* the PostHogEvent list the transform function returned

\* the state of the import side: the clock, isBrazeObjectActive, paginateItems
importVars == <<now, timezoneOffset, detailsResponse, active, paginateAfter,
                currentPage, items, currentBatch, runCycle, calls, fetched>>

\* the state of one fetchBraze call and of the import jobs
trackVars == <<triggered, jobState, brazeCalls, answers, captured>>

transformVars == <<dataSeriesIn, postHogEvents>>

jobVars == <<httpResponse, settlement, errorsLogged, formatted, trackVars,
             transformVars>>

vars == <<config, pluginEvent, body, acc, curr, op, variant, requests, result,
          importVars, jobVars>>

----------------------------------------------------------------------------
(* Bounds of the model *)

\* longest configuration string (eventsToExport, userPropertiesToExport)
MaxCfgLen == 2

\* most attribute and event objects one exportEvents call is fed in total
MaxItems == 152

\* most /users/track requests one exportEvents call of SpecExport issues
MaxRequests == 3

----------------------------------------------------------------------------
(* Strings and optional values *)

Chars == {"a", ","}

RECURSIVE StringsOfLen(_)
StringsOfLen(n) ==
    IF n = 0 THEN {<<>>}
    ELSE {Append(s, c) : s \in StringsOfLen(n - 1), c \in Chars}

StringsUpTo(n) == UNION {StringsOfLen(k) : k \in 0..n}

Undefined == [defined |-> FALSE]
Some(v) == [defined |-> TRUE, value |-> v]

\* !s for an optional string: undefined and '' are falsy
Falsy(s) == ~s.defined \/ s.value = <<>>

\* a ?? b
Coalesce(a, b) == IF a.defined THEN a ELSE b

\* String.prototype.split(','): the pieces between the commas, empty pieces
\* included; the empty string splits into one empty piece
RECURSIVE SplitFrom(_, _, _, _)
SplitFrom(s, i, piece, pieces) ==
    IF i > Len(s) THEN Append(pieces, piece)
    ELSE IF s[i] = "," THEN SplitFrom(s, i + 1, <<>>, Append(pieces, piece))
    ELSE SplitFrom(s, i + 1, Append(piece, s[i]), pieces)

split(s) == SplitFrom(s, 1, <<>>, <<>>)

\* Array.prototype.includes
includes(list, x) == \E i \in DOMAIN list : list[i] = x

----------------------------------------------------------------------------
(* Dates and ISODateString *)

ONE_HOUR == 1000 * 60 * 60
ONE_DAY == ONE_HOUR * 24

\* A Date is an instant: the number of whole days since 1970-01-01T00:00Z
\* and the milliseconds into that day.
DateOf(day, ms) == [day |-> day + (ms \div ONE_DAY), ms |-> ms % ONE_DAY]

\* a.getTime() - b.getTime()
TimeBetween(a, b) == (a.day - b.day) * ONE_DAY + (a.ms - b.ms)

\* the calendar day (proleptic Gregorian, month 0-based) of a day number
CivilFromDays(day) ==
    LET z == day + 719468
        era == z \div 146097
        doe == z - era * 146097
        yoe == (doe - (doe \div 1460) + (doe \div 36524) - (doe \div 146096)) \div 365
        doy == doe - (365 * yoe + (yoe \div 4) - (yoe \div 100))
        mp == (5 * doy + 2) \div 153
        m == IF mp < 10 THEN mp + 3 ELSE mp - 9
    IN  [year |-> yoe + era * 400 + (IF m <= 2 THEN 1 ELSE 0),
         month |-> m - 1,
         date |-> doy - ((153 * mp + 2) \div 5) + 1]

\* the day number of a calendar day (month 0-based)
DaysFromCivil(year, month, date) ==
    LET m == month + 1
        y == IF m <= 2 THEN year - 1 ELSE year
        era == y \div 400
        yoe == y - era * 400
        mp == IF m > 2 THEN m - 3 ELSE m + 9
        doy == ((153 * mp + 2) \div 5) + date - 1
        doe == yoe * 365 + (yoe \div 4) - (yoe \div 100) + doy
    IN  era * 146097 + doe - 719468

getUTCFullYear(d) == CivilFromDays(d.day).year
getUTCMonth(d) == CivilFromDays(d.day).month
getUTCDate(d) == CivilFromDays(d.day).date
getUTCHours(d) == d.ms \div ONE_HOUR
getUTCMinutes(d) == (d.ms \div (1000 * 60)) % 60
getUTCSeconds(d) == (d.ms \div 1000) % 60
getUTCMilliseconds(d) == d.ms % 1000

\* the instant whose UTC clock reads what the local clock reads at d, for a
\* process timezoneOffset minutes behind UTC (Date.prototype.getTimezoneOffset)
LocalTime(d) == DateOf(d.day, d.ms - timezoneOffset * 1000 * 60)

getFullYear(d) == getUTCFullYear(LocalTime(d))
getMonth(d) == getUTCMonth(LocalTime(d))
getDate(d) == getUTCDate(LocalTime(d))

\* new Date(year, month, date, hours, minutes, seconds): local time
NewDate(year, month, date, hours, minutes, seconds) ==
    DateOf(DaysFromCivil(year, month, date),
           hours * ONE_HOUR + (minutes + timezoneOffset) * 1000 * 60 + seconds * 1000)

\* Date.prototype.toISOString: the UTC fields of the string
\* YYYY-MM-DDTHH:mm:ss.sssZ
toISOString(d) ==
    [year |-> getUTCFullYear(d), month |-> getUTCMonth(d) + 1,
     date |-> getUTCDate(d), hours |-> getUTCHours(d),
     minutes |-> getUTCMinutes(d), seconds |-> getUTCSeconds(d),
     ms |-> getUTCMilliseconds(d)]

\* new Date(string) for a string YYYY-MM-DDTHH:mm:ss.sssZ
ParseDate(str) ==
    DateOf(DaysFromCivil(str.year, str.month - 1, str.date),
           str.hours * ONE_HOUR + str.minutes * 1000 * 60
             + str.seconds * 1000 + str.ms)

Digits(n) == IF n < 10 THEN <<n>>
             ELSE IF n < 100 THEN <<n \div 10, n % 10>>
             ELSE IF n < 1000 THEN <<n \div 100, (n \div 10) % 10, n % 10>>
             ELSE <<n \div 1000, (n \div 100) % 10, (n \div 10) % 10, n % 10>>

pad(n) == IF n < 10 THEN <<0>> \o Digits(n) ELSE Digits(n)

\* the seven numeric fields of the string, in order; the separators
\* '-', '-', 'T', ':', ':', '.', 'Z' are fixed
ISODateString(d) ==
    << Digits(getUTCFullYear(d)), pad(getUTCMonth(d) + 1), pad(getUTCDate(d)),
       pad(getUTCHours(d)), pad(getUTCMinutes(d)), pad(getUTCSeconds(d)),
       pad(getUTCMilliseconds(d)) >>

\* variant of the function below that takes the midnight of the UTC day
getLastUTCMidnightOfUTCDay == DateOf(now.day, 0)

\* const now = new Date()
\* new Date(now.getFullYear(), now.getMonth(), now.getDate(), 0, 0, 0)
getLastUTCMidnight == NewDate(getFullYear(now), getMonth(now), getDate(now), 0, 0, 0)

\* 1648458820359 is 2022-03-28T09:13:40.359Z
Timestamps == {Undefined, Some(DateOf(19079, 33220359))}

----------------------------------------------------------------------------
(* Inbound events and configuration *)

BooleanChoice == {"Yes", "No"}

ConfigStrings == {Undefined} \cup {Some(s) : s \in StringsUpTo(MaxCfgLen)}

Configs ==
    [eventsToExport : ConfigStrings,
     userPropertiesToExport : ConfigStrings,
     importUserAttributesInAllEvents : BooleanChoice]

EventNames == {<<>>, <<"a">>, <<"a", "a">>}
PropertyKeys == {<<>>, <<"a">>}
DollarSet == <<"$", "s", "e", "t">>
OtherKey == <<"p">>
EXTERNAL_ID == <<"e", "x", "t", "e", "r", "n", "a", "l", "_", "i", "d">>
DistinctIds == {"test"}

\* an object with the given keys, every key holding value v
ObjectsWith(v) == UNION {[ks -> {v}] : ks \in SUBSET PropertyKeys}

\* the top-level $set holds 1s, properties.$set holds 2s, so that the two
\* candidate sets are told apart
TopSets == {Undefined} \cup {Some(o) : o \in ObjectsWith(1)}

EmptyObject == [k \in {} |-> 0]

\* properties: absent, or an object with an optional $set entry and an
\* optional ordinary entry
PropertiesObjects ==
    {EmptyObject, [k \in {OtherKey} |-> TRUE]}
    \cup {[k \in {DollarSet} |-> o] : o \in ObjectsWith(2)}
    \cup {[k \in {DollarSet, OtherKey} |-> IF k = DollarSet THEN o ELSE TRUE] :
             o \in ObjectsWith(2)}

PluginEvents ==
    [event : EventNames,
     set : TopSets,
     properties : {Undefined} \cup {Some(p) : p \in PropertiesObjects},
     timestamp : Timestamps,
     distinct_id : DistinctIds]

----------------------------------------------------------------------------
(* Export shaper: _generateBrazeRequestBody *)

\* properties?.$set
PropertiesSet(properties) ==
    IF properties.defined /\ DollarSet \in DOMAIN properties.value
    THEN Some(properties.value[DollarSet])
    ELSE Undefined

\* variant of the candidate set below that prefers properties.$set
userPropertiesOfNested(e) ==
    Coalesce(PropertiesSet(e.properties), Coalesce(e.set, Some(EmptyObject))).value

\* const userProperties = $set ?? properties?.$set ?? {}
userPropertiesOf(e) ==
    Coalesce(e.set, Coalesce(PropertiesSet(e.properties), Some(EmptyObject))).value

\* meta.config.userPropertiesToExport?.split(',') ?? []
propertiesToExportOf(cfg) ==
    IF cfg.userPropertiesToExport.defined
    THEN split(cfg.userPropertiesToExport.value)
    ELSE <<>>

\* the reduce over Object.keys(userProperties)
filteredPropertiesOf(e, cfg) ==
    LET userProperties == userPropertiesOf(e)
        kept == {k \in DOMAIN userProperties : includes(propertiesToExportOf(cfg), k)}
    IN  [k \in kept |-> userProperties[k]]

\* variant of the test below that compares the name with the whole setting
eventIsExportedUnsplit(e, cfg) ==
    /\ cfg.eventsToExport.defined
    /\ cfg.eventsToExport.value = e.event

\* meta.config.eventsToExport?.split(',').includes(event), undefined is falsy
eventIsExported(e, cfg) ==
    /\ cfg.eventsToExport.defined
    /\ includes(split(cfg.eventsToExport.value), e.event)

\* variant of the gate below that ignores importUserAttributesInAllEvents
shouldImportAttributesOfListed(e, cfg) == eventIsExported(e, cfg)

\* meta.config.importUserAttributesInAllEvents === 'Yes' || <event exported>
shouldImportAttributesOf(e, cfg) ==
    \/ cfg.importUserAttributesInAllEvents = "Yes"
    \/ eventIsExported(e, cfg)

\* { ...filteredProperties, external_id: pluginEvent.distinct_id }
AttributeObject(filteredProperties, distinct_id) ==
    [k \in DOMAIN filteredProperties \cup {EXTERNAL_ID} |->
        IF k = EXTERNAL_ID THEN distinct_id ELSE filteredProperties[k]]

\* variant of the destructuring below that keeps every entry of properties
eventPropertiesOfAll(e) == Coalesce(e.properties, Some(EmptyObject)).value

\* const { $set: _set, ...eventProperties } = properties ?? {}
eventPropertiesOf(e) ==
    LET p == Coalesce(e.properties, Some(EmptyObject)).value
    IN  [k \in DOMAIN p \ {DollarSet} |-> p[k]]

generateBrazeRequestBody(e, cfg) ==
    LET filteredProperties == filteredPropertiesOf(e, cfg)
        attributes ==
            IF shouldImportAttributesOf(e, cfg) /\ DOMAIN filteredProperties # {}
            THEN <<AttributeObject(filteredProperties, e.distinct_id)>>
            ELSE <<>>
        events ==
            IF eventIsExported(e, cfg)
            THEN << [properties |-> eventPropertiesOf(e),
                     external_id |-> e.distinct_id,
                     name |-> e.event,
                     time |-> IF e.timestamp.defined
                              THEN ISODateString(e.timestamp.value)
                              ELSE ISODateString(getLastUTCMidnight)] >>
            ELSE <<>>
    IN  [attributes |-> attributes, events |-> events]

NoBody == [none |-> TRUE]

----------------------------------------------------------------------------
(* The shaper applied to every configuration and inbound event *)

\* no fetchBraze call and no import job under way
JobIdle ==
    /\ httpResponse = NoBody
    /\ settlement = NoBody
    /\ errorsLogged = FALSE
    /\ formatted = NoBody
    /\ triggered = <<>>
    /\ jobState = <<>>
    /\ brazeCalls = <<>>
    /\ answers = <<>>
    /\ captured = <<>>
    /\ dataSeriesIn = NoBody
    /\ postHogEvents = Undefined

\* the import side at rest, at midnight of 2023-06-16 in a UTC process
ImportIdle ==
    /\ now = DateOf(19524, 0)
    /\ timezoneOffset = 0
    /\ detailsResponse = NoBody
    /\ active = FALSE
    /\ paginateAfter = 0
    /\ currentPage = 0
    /\ items = <<>>
    /\ currentBatch = <<>>
    /\ runCycle = FALSE
    /\ calls = <<>>
    /\ fetched = <<>>
    /\ JobIdle

IdleRest ==
    /\ acc = <<>>
    /\ curr = NoBody
    /\ op = "idle"
    /\ variant = "current"
    /\ requests = <<>>
    /\ result = "none"

InitShape ==
    /\ config \in Configs
    /\ pluginEvent \in PluginEvents
    /\ body = NoBody
    /\ IdleRest
    /\ ImportIdle

Shape ==
    /\ body = NoBody
    /\ body' = generateBrazeRequestBody(pluginEvent, config)
    /\ UNCHANGED <<config, pluginEvent, acc, curr, op, variant, requests, result, importVars, jobVars>>

NextShape == Shape

SpecShape == InitShape /\ [][NextShape]_vars

----------------------------------------------------------------------------
(* Export batcher: the reduce of exportEvents *)

\* batchSize, the Braze limit on each array of one /users/track body
batchSize == 75

\* The batcher only looks at the lengths of the two arrays of a body, so a
\* shaped entry and a batch are kept as the pair of those lengths.
Lengths(b) == [attributes |-> Len(b.attributes), events |-> Len(b.events)]

\* one configuration under which the shaper yields every kind of entry
BatchConfig ==
    [eventsToExport |-> Some(<<"a">>),
     userPropertiesToExport |-> Some(<<"a">>),
     importUserAttributesInAllEvents |-> "Yes"]

\* inbound events that, under BatchConfig, shape to nothing, to an attribute
\* only, to an event only, and to both
EventNone ==
    [event |-> <<"a", "a">>, set |-> Undefined, properties |-> Undefined,
     timestamp |-> Undefined, distinct_id |-> "test"]
EventAttribute ==
    [EventNone EXCEPT !.set = Some([k \in {<<"a">>} |-> 1])]
EventOnly ==
    [EventNone EXCEPT !.event = <<"a">>]
EventBoth ==
    [EventAttribute EXCEPT !.event = <<"a">>]

BatchEvents == {EventNone, EventAttribute, EventOnly, EventBoth}

\* the entries the shaper produces for the inbound events of one call
EntryKinds == {Lengths(generateBrazeRequestBody(e, BatchConfig)) : e \in BatchEvents}

\* variant of the test below that never skips an entry
IsEmptyEntryNever(entry) == FALSE

\* attributes.length === 0 && events.length === 0
IsEmptyEntry(entry) == entry.attributes = 0 /\ entry.events = 0

\* variant of the test below that closes a batch only once an array is
\* over the limit
NeedsNewBatchOverLimit(batches, entry) ==
    \/ batches = <<>>
    \/ batches[Len(batches)].attributes > batchSize
    \/ batches[Len(batches)].events > batchSize

\* variant that closes a batch one entry early
NeedsNewBatchEarly(batches, entry) ==
    \/ batches = <<>>
    \/ batches[Len(batches)].attributes >= batchSize - 1
    \/ batches[Len(batches)].events >= batchSize - 1

\* variant that closes a batch only if the entry at hand does not fit
NeedsNewBatchIfNoFit(batches, entry) ==
    \/ batches = <<>>
    \/ batches[Len(batches)].attributes + entry.attributes > batchSize
    \/ batches[Len(batches)].events + entry.events > batchSize

\* !lastBatch || lastBatch.attributes.length >= batchSize
\*            || lastBatch.events.length >= batchSize
\* (curr, the entry at hand, is in scope but not consulted)
NeedsNewBatch(batches, entry) ==
    \/ batches = <<>>
    \/ batches[Len(batches)].attributes >= batchSize
    \/ batches[Len(batches)].events >= batchSize

\* the callback of brazeRequestBodies.reduce
reduceStep(batches, entry) ==
    IF IsEmptyEntry(entry) THEN batches
    ELSE IF NeedsNewBatch(batches, entry) THEN Append(batches, entry)
    ELSE [batches EXCEPT ![Len(batches)] =
            [attributes |-> @.attributes + entry.attributes,
             events |-> @.events + entry.events]]

RECURSIVE SumOf(_, _)
SumOf(batches, field) ==
    IF batches = <<>> THEN 0
    ELSE batches[1][field] + SumOf(Tail(batches), field)

ItemsIn(batches) == SumOf(batches, "attributes") + SumOf(batches, "events")

InitBatch ==
    /\ config = BatchConfig
    /\ pluginEvent = NoBody
    /\ body = NoBody
    /\ acc = <<>>
    /\ curr = NoBody
    /\ op = "idle"
    /\ variant = "current"
    /\ requests = <<>>
    /\ result = "none"
    /\ ImportIdle

\* batchedBodies.map((body, idx) => fetchBraze('/users/track', ...)): one
\* request per batch, all issued before the first of them is awaited
requestsFor(batches) ==
    [i \in 1..Len(batches) |->
        [idx |-> i - 1, body |-> batches[i], state |-> "inflight"]]

\* one iteration of the reduce, for whatever entry comes next in the input
ReduceStep ==
    /\ op = "idle"
    /\ ItemsIn(acc) < MaxItems
    /\ \E entry \in EntryKinds :
          /\ curr' = entry
          /\ acc' = reduceStep(acc, entry)
    /\ UNCHANGED <<config, pluginEvent, body, op, variant, requests, result, importVars, jobVars>>

\* the input list ends here: lines 212-217 return when nothing was shaped,
\* otherwise every batch is posted
SendBatches ==
    /\ op = "idle"
    /\ acc # <<>>
    /\ op' = "exportEvents"
    /\ requests' = requestsFor(acc)
    /\ result' = "pending"
    /\ UNCHANGED <<config, pluginEvent, body, acc, curr, variant, importVars, jobVars>>

NextBatch == ReduceStep \/ SendBatches

SpecBatch == InitBatch /\ [][NextBatch]_vars

----------------------------------------------------------------------------
(* fetchBraze, in the two variants setupPlugin installs *)

Variants == {"current", "earlier"}

\* what the remote end can answer to one request
Unparseable == [json |-> FALSE]
Json(v) == [json |-> TRUE, value |-> v]
Null == [null |-> TRUE]
ResponseBodies ==
    {Unparseable, Json(Null),
     Json([message |-> "success"]),
     Json([message |-> "queued"]),
     Json([errors |-> "external_id is required"])}
Statuses == {200, 400, 500}
Responses ==
    {[network |-> FALSE]}
    \cup {[network |-> TRUE, status |-> st, body |-> b] :
             st \in Statuses, b \in ResponseBodies}

Rejected(error) == [state |-> "rejected", error |-> error]
Fulfilled(value) == [state |-> "fulfilled", value |-> value]

\* String(response.status)[0]
FirstDigit(status) == Digits(status)[1]

\* variant of the function below in which both variants answer null to a
\* status that is neither 2xx nor 5xx
fetchBrazeNullUnless2xx(v, response) ==
    IF ~response.network THEN Rejected("RetryError")
    ELSE IF FirstDigit(response.status) = 5 THEN Rejected("RetryError")
    ELSE IF FirstDigit(response.status) # 2 THEN Fulfilled(Null)
    ELSE IF ~response.body.json
         THEN IF v = "earlier" THEN Rejected("SyntaxError") ELSE Fulfilled(Null)
    ELSE IF v = "earlier" /\ response.body.value = Null THEN Rejected("TypeError")
    ELSE Fulfilled(response.body.value)

\* lines 53-100 ("current") and 326-367 ("earlier"): the promise fetchBraze
\* returns settles this way for the given response.  The earlier variant
\* reads responseJson['errors'] without a guard, which throws for a body
\* that parses to null.
fetchBraze(v, response) ==
    IF ~response.network THEN Rejected("RetryError")
    ELSE IF FirstDigit(response.status) = 5 THEN Rejected("RetryError")
    ELSE IF v = "earlier" /\ FirstDigit(response.status) # 2 THEN Fulfilled(Null)
    ELSE IF ~response.body.json
         THEN IF v = "earlier" THEN Rejected("SyntaxError") ELSE Fulfilled(Null)
    ELSE IF v = "earlier" /\ response.body.value = Null THEN Rejected("TypeError")
    ELSE Fulfilled(response.body.value)

\* whether the call reaches the console.error of the errors field: lines
\* 96-98 ("current") and 361-364 ("earlier")
logsErrors(v, response) ==
    /\ fetchBraze(v, response).state = "fulfilled"
    /\ response.body.json
    /\ response.body.value # Null
    /\ ~(v = "earlier" /\ FirstDigit(response.status) # 2)
    /\ "errors" \in DOMAIN response.body.value

\* response?.message
MessageOf(value) ==
    IF value # Null /\ "message" \in DOMAIN value THEN value.message ELSE "undefined"

----------------------------------------------------------------------------
(* The export operations and their requests *)

Settled(request) == request.state # "inflight"

\* variant of Promise.all that settles with the first promise to settle
PromiseAllFirst(reqs) ==
    IF \E i \in DOMAIN reqs : reqs[i].state = "rejected"
    THEN (LET i == CHOOSE j \in DOMAIN reqs : reqs[j].state = "rejected"
          IN  reqs[i].error)
    ELSE IF \E i \in DOMAIN reqs : reqs[i].state = "fulfilled" THEN "returned"
    ELSE "pending"

\* variant of Promise.all that waits for every promise and never rejects
PromiseAllSettled(reqs) ==
    IF \A i \in DOMAIN reqs : Settled(reqs[i]) THEN "returned" ELSE "pending"

\* await Promise.all(brazeRequests), for a call still waiting: rejects as
\* soon as one request is rejected, resumes once all are fulfilled
PromiseAll(reqs) ==
    IF \E i \in DOMAIN reqs : reqs[i].state = "rejected"
    THEN (LET i == CHOOSE j \in DOMAIN reqs : reqs[j].state = "rejected"
          IN  reqs[i].error)
    ELSE IF \A i \in DOMAIN reqs : reqs[i].state = "fulfilled" THEN "returned"
    ELSE "pending"

\* variant of the check below that lets a null response through
onEventAfterFetchNullOk(request) ==
    IF request.state = "inflight" THEN "pending"
    ELSE IF request.state = "rejected" THEN request.error
    ELSE IF request.value # Null /\ MessageOf(request.value) # "success" THEN "RetryError"
    ELSE "returned"

\* lines 1153-1167: the await of fetchBraze and the check of the response
onEventAfterFetch(request) ==
    IF request.state = "inflight" THEN "pending"
    ELSE IF request.state = "rejected" THEN request.error
    ELSE IF MessageOf(request.value) # "success" THEN "RetryError"
    ELSE "returned"

\* brazeRequestBodies.reduce(..., []) over bodies[lo..hi], folded from left
\* to right into the accumulator batches.  The range is halved only to keep
\* the evaluation shallow, the bodies are still folded one by one in order.
\* (Len(batches) >= lo never holds, as at most lo - 1 bodies were folded
\* before; the test makes TLC evaluate the accumulator before it descends.)
RECURSIVE reduceRange(_, _, _, _)
reduceRange(bodies, lo, hi, batches) ==
    IF lo > hi \/ Len(batches) >= lo THEN batches
    ELSE IF lo = hi THEN reduceStep(batches, Lengths(bodies[lo]))
    ELSE reduceRange(bodies, (lo + hi) \div 2 + 1, hi,
                     reduceRange(bodies, lo, (lo + hi) \div 2, batches))

reduce(bodies) == reduceRange(bodies, 1, Len(bodies), <<>>)

Rep(e, n) == [i \in 1..n |-> e]

\* the input lists of exportEvents
ExportInputs ==
    {<<>>,
     Rep(EventNone, MaxRequests),
     <<EventNone, EventBoth>>}
    \cup {Rep(EventBoth, (k - 1) * batchSize + 1) : k \in 1..MaxRequests}
    \cup {Rep(EventAttribute, batchSize) \o <<EventOnly>>}

ExportConfigs ==
    {BatchConfig,
     [BatchConfig EXCEPT !.importUserAttributesInAllEvents = "No"],
     [BatchConfig EXCEPT !.eventsToExport = Some(<<>>),
                         !.userPropertiesToExport = Some(<<>>)]}

\* variant of the test below that looks at the events only
somethingToSendEventsOnly(b) == b.events # <<>>

\* attributes.length || events.length (line 1152); its negation is the test
\* of lines 214 and 224
somethingToSend(b) == b.attributes # <<>> \/ b.events # <<>>

\* lines 212-215: brazeRequestBodies.length === 0 || every body is empty
nothingToExport(bodies) ==
    \/ Len(bodies) = 0
    \/ \A i \in DOMAIN bodies : ~somethingToSend(bodies[i])

InitExport ==
    /\ config \in ExportConfigs
    /\ variant \in Variants
    /\ pluginEvent = NoBody
    /\ body = NoBody
    /\ acc = <<>>
    /\ curr = NoBody
    /\ op = "idle"
    /\ requests = <<>>
    /\ result = "none"
    /\ ImportIdle

\* onEvent, lines 1101-1169, up to the await of fetchBraze; lines 1116-1150
\* are the same statements as _generateBrazeRequestBody
OnEvent ==
    /\ op = "idle"
    /\ op' = "onEvent"
    /\ \E e \in BatchEvents :
          /\ pluginEvent' = e
          /\ IF Falsy(config.eventsToExport) /\ Falsy(config.userPropertiesToExport)
             THEN /\ body' = NoBody
                  /\ requests' = <<>>
                  /\ result' = "returned"
             ELSE LET b == generateBrazeRequestBody(e, config)
                  IN  /\ body' = b
                      /\ IF somethingToSend(b)
                         THEN /\ requests' = requestsFor(<<Lengths(b)>>)
                              /\ result' = "pending"
                         ELSE /\ requests' = <<>>
                              /\ result' = "returned"
    /\ UNCHANGED <<config, variant, acc, curr, importVars, jobVars>>

\* exportEvents, lines 200-250, up to the await of Promise.all
ExportEvents ==
    /\ op = "idle"
    /\ op' = "exportEvents"
    /\ \E pluginEvents \in ExportInputs :
          LET brazeRequestBodies ==
                  [i \in DOMAIN pluginEvents |->
                      generateBrazeRequestBody(pluginEvents[i], config)]
              batchedBodies == reduce(brazeRequestBodies)
          IN  /\ pluginEvent' = pluginEvents
              /\ IF Len(pluginEvents) = 0 \/ nothingToExport(brazeRequestBodies)
                 THEN /\ acc' = <<>>
                      /\ requests' = <<>>
                      /\ result' = "returned"
                 ELSE /\ acc' = batchedBodies
                      /\ requests' = requestsFor(batchedBodies)
                      /\ result' = "pending"
    /\ UNCHANGED <<config, variant, body, curr, importVars, jobVars>>

\* the caller's view once the requests are as given: the operation resumes
\* in the same turn of the event loop in which the deciding request settles
Resume(operation, reqs, outcome) ==
    IF outcome # "pending" THEN outcome
    ELSE IF operation = "onEvent" THEN onEventAfterFetch(reqs[1])
    ELSE PromiseAll(reqs)

\* the remote end answers request i (or the connection fails)
Respond(i) ==
    /\ i \in DOMAIN requests
    /\ requests[i].state = "inflight"
    /\ \E response \in Responses :
          LET settled == fetchBraze(variant, response)
              reqs == [requests EXCEPT ![i] =
                          [idx |-> @.idx, body |-> @.body] @@ settled]
          IN  /\ requests' = reqs
              /\ result' = Resume(op, reqs, result)
    /\ UNCHANGED <<config, variant, pluginEvent, body, acc, curr, op, importVars, jobVars>>

NextExport ==
    \/ OnEvent
    \/ ExportEvents
    \/ \E i \in 1..MaxRequests : Respond(i)

SpecExport == InitExport /\ [][NextExport]_vars

----------------------------------------------------------------------------
(* Claims about the batcher, checked under SpecBatch *)

LastBatch(batches) == batches[Len(batches)]

\* C1: every /users/track body exportEvents sends has at most 75 entries in
\* its attributes array and at most 75 in its events array.
C1_BodiesWithinLimit ==
    /\ \A i \in DOMAIN requests :
          /\ requests[i].body.attributes <= batchSize
          /\ requests[i].body.events <= batchSize
    /\ \A i \in DOMAIN acc :
          /\ acc[i].attributes <= batchSize
          /\ acc[i].events <= batchSize

\* a call that sent a body with a full attributes array followed by a
\* second body
C1_Witness ==
    /\ op = "exportEvents"
    /\ Len(requests) >= 2
    /\ requests[1].body.attributes = batchSize
    /\ requests[2].body.attributes >= 1

\* the least number of batches that can hold the given totals: every entry
\* adds at most one object to each array, so k batches suffice exactly when
\* k * batchSize covers the attribute total and the event total
MinBatches(attributes, events) ==
    CHOOSE k \in 0..(attributes + events) :
        /\ k * batchSize >= attributes
        /\ k * batchSize >= events
        /\ \A j \in 0..(k - 1) : j * batchSize < attributes \/ j * batchSize < events

\* C2 as stated: the batches exportEvents builds are a minimal packing of
\* the non-empty entries (no packing into fewer batches keeps both arrays of
\* every batch at or below 75).
C2_Original_Minimal ==
    Len(acc) = MinBatches(SumOf(acc, "attributes"), SumOf(acc, "events"))

\* C2 as amended: every batch but the last has exactly 75 entries in at least
\* one of its arrays, and the batch sequence is minimal when the entries
\* contribute to one array only (attributes only, or events only).
C2_AllButLastFull ==
    /\ \A i \in 1..(Len(acc) - 1) :
          acc[i].attributes = batchSize \/ acc[i].events = batchSize
    /\ (SumOf(acc, "attributes") = 0 \/ SumOf(acc, "events") = 0)
          => Len(acc) = MinBatches(SumOf(acc, "attributes"), SumOf(acc, "events"))

\* three batches, the first closed by its attributes and the second by its
\* events
C2_Witness ==
    /\ Len(acc) = 3
    /\ acc[1].attributes = batchSize /\ acc[1].events < batchSize
    /\ acc[2].events = batchSize /\ acc[2].attributes < batchSize

\* appending the entry would push an array of the batch above the limit
WouldExceed(batch, entry) ==
    \/ batch.attributes + entry.attributes > batchSize
    \/ batch.events + entry.events > batchSize

Appended(batches, entry) ==
    [batches EXCEPT ![Len(batches)] =
        [attributes |-> @.attributes + entry.attributes,
         events |-> @.events + entry.events]]

\* a step of the reduce that handled a non-empty entry
NonEmptyReduceStep ==
    /\ op = "idle" /\ op' = "idle"
    /\ curr' # NoBody
    /\ ~IsEmptyEntry(curr')

\* C3 as stated: a non-empty entry is appended to the last batch unless
\* appending it would push one of that batch's arrays above 75; a new batch
\* is started only in that case or when there is no batch yet.
C3_Original_Greedy ==
    [][NonEmptyReduceStep =>
          IF acc = <<>> \/ WouldExceed(LastBatch(acc), curr')
          THEN acc' = Append(acc, curr')
          ELSE acc' = Appended(acc, curr')]_vars

\* C3 as amended: a non-empty entry is appended to the last batch unless one
\* of that batch's arrays already holds 75 entries; a new batch is started
\* exactly in that case or when there is no batch yet.
C3_NewBatchWhenFull ==
    [][NonEmptyReduceStep =>
          IF \/ acc = <<>>
             \/ LastBatch(acc).attributes = batchSize
             \/ LastBatch(acc).events = batchSize
          THEN acc' = Append(acc, curr')
          ELSE acc' = Appended(acc, curr')]_vars

\* an entry with an event only has just opened a second batch although the
\* first one has no event at all
C3_Witness ==
    /\ op = "idle"
    /\ Len(acc) = 2
    /\ acc[1] = [attributes |-> batchSize, events |-> 0]
    /\ acc[2] = [attributes |-> 0, events |-> 1]
    /\ curr = acc[2]

\* C14: shaped entries whose attributes and events are both empty are
\* skipped by the batcher: they never start a new batch (the batches stay as
\* they are), and no batch that is dispatched has both arrays empty.
C14_EmptyEntriesSkipped ==
    /\ [][(/\ op = "idle" /\ op' = "idle"
           /\ curr' # NoBody
           /\ curr'.attributes + curr'.events = 0) => acc' = acc]_vars
    /\ [](\A i \in DOMAIN acc : acc[i].attributes + acc[i].events > 0)
    /\ [](\A i \in DOMAIN requests :
             requests[i].body.attributes + requests[i].body.events > 0)

\* a call whose input ended with an empty entry dispatched its one batch
C14_Witness ==
    /\ op = "exportEvents"
    /\ curr = [attributes |-> 0, events |-> 0]
    /\ Len(requests) = 1
    /\ requests[1].body = [attributes |-> 1, events |-> 1]

----------------------------------------------------------------------------
(* Claims about the dispatch of the requests, checked under SpecExport *)

Errors == {"RetryError", "SyntaxError", "TypeError"}

SomeRejected == \E i \in DOMAIN requests : requests[i].state = "rejected"
SomeInflight == \E i \in DOMAIN requests : requests[i].state = "inflight"

\* C4 as stated: if the request of one batch fails, exportEvents as a whole
\* does not fail; it still completes normally.
C4_Original_NoFailure ==
    (op = "exportEvents" /\ SomeRejected) => result \notin Errors

\* C4 as amended: if the request of one batch fails, exportEvents as a whole
\* fails with that error (and fails only then); the requests of the other
\* batches are unaffected.
C4_FailurePropagates ==
    /\ [](op = "exportEvents" => (SomeRejected <=> result \in Errors))
    /\ [][\A i \in DOMAIN requests :
            (requests[i].state = "inflight" /\ requests'[i].state = "rejected")
            => \A j \in DOMAIN requests \ {i} : requests'[j] = requests[j]]_vars

\* one request was fulfilled, the next one failed and made the call fail,
\* and the last one is still in flight, untouched
C4_Witness ==
    /\ op = "exportEvents"
    /\ Len(requests) = MaxRequests
    /\ requests[1].state = "fulfilled"
    /\ requests[2].state = "rejected"
    /\ requests[3].state = "inflight"
    /\ result = "RetryError"

\* C5 as stated: exportEvents never returns to its caller, neither by
\* completing nor by raising an error, while one of its requests is still
\* in flight.
C5_Original_WaitsForAll ==
    (op = "exportEvents" /\ result # "pending") => ~SomeInflight

\* C5 as amended: exportEvents never completes normally while one of its
\* requests is still in flight; it raises the error of a failed request at
\* once, whether or not the other requests have finished.
C5_ReturnsAfterAll ==
    op = "exportEvents" =>
        /\ result = "returned" =>
              \A i \in DOMAIN requests : requests[i].state = "fulfilled"
        /\ (result = "pending" /\ requests # <<>>) => (SomeInflight /\ ~SomeRejected)

\* a call with several requests that completed normally
C5_Witness ==
    /\ op = "exportEvents"
    /\ Len(requests) >= 2
    /\ result = "returned"

\* a request was answered with a body that does not report success
SomeNonSuccess ==
    \E i \in DOMAIN requests :
        /\ requests[i].state = "fulfilled"
        /\ MessageOf(requests[i].value) # "success"

\* C6 as stated: whenever a /users/track POST of an export operation (onEvent
\* or exportEvents) gets a response whose message is not "success" (a null
\* body and a body with errors included), the operation fails with a
\* RetryError.
C6_Original_NonSuccessRetries ==
    (op \in {"onEvent", "exportEvents"} /\ SomeNonSuccess) => result = "RetryError"

\* C6 as amended: whenever the /users/track POST of onEvent gets a response
\* whose message is not "success" (a null body and a body with errors
\* included), onEvent fails with a RetryError; exportEvents does not look at
\* the responses and fails only when fetchBraze throws.
C6_OnEventRetries ==
    /\ (op = "onEvent" /\ SomeNonSuccess) => result = "RetryError"
    /\ (op = "exportEvents" /\ ~SomeRejected /\ ~SomeInflight) => result = "returned"

\* onEvent was answered with a null body and failed with a RetryError
C6_Witness ==
    /\ op = "onEvent"
    /\ Len(requests) = 1
    /\ requests[1].state = "fulfilled"
    /\ requests[1].value = Null
    /\ result = "RetryError"

----------------------------------------------------------------------------
(* Claims about the shaper, checked under SpecShape *)

\* The allow-list a configuration string names: its maximal comma-free
\* pieces (the empty string names the single empty piece); an undefined
\* setting names nothing.
IsPiece(s, i, j) ==
    /\ i = 1 \/ s[i - 1] = ","
    /\ j = Len(s) \/ s[j + 1] = ","
    /\ \A k \in i..j : s[k] # ","

AllowList(setting) ==
    IF ~setting.defined THEN {}
    ELSE LET s == setting.value
         IN  {SubSeq(s, i, j) : <<i, j>> \in
                 {p \in (1..(Len(s) + 1)) \X (0..Len(s)) :
                     p[2] >= p[1] - 1 /\ IsPiece(s, p[1], p[2])}}

\* the candidate user-property set: the top-level $set if present, else
\* properties.$set, else empty
Candidate(e) ==
    IF e.set.defined THEN e.set.value
    ELSE IF e.properties.defined /\ DollarSet \in DOMAIN e.properties.value
         THEN e.properties.value[DollarSet]
         ELSE EmptyObject

\* the candidate keys the property allow-list names
FilteredKeys(e, cfg) ==
    {k \in DOMAIN Candidate(e) : k \in AllowList(cfg.userPropertiesToExport)}

EventAllowed(e, cfg) == e.event \in AllowList(cfg.eventsToExport)

AttributeGate(e, cfg) ==
    /\ cfg.importUserAttributesInAllEvents = "Yes" \/ EventAllowed(e, cfg)
    /\ FilteredKeys(e, cfg) # {}

Shaped == body # NoBody

\* C7: the shaper emits exactly one attribute object, carrying external_id =
\* distinct_id, iff (importUserAttributesInAllEvents is 'Yes' or the event
\* name is in the eventsToExport allow-list) and the filtered property set
\* is non-empty; otherwise the attributes list is empty.
C7_AttributeGate ==
    Shaped =>
        IF AttributeGate(pluginEvent, config)
        THEN /\ Len(body.attributes) = 1
             /\ body.attributes[1][EXTERNAL_ID] = pluginEvent.distinct_id
        ELSE body.attributes = <<>>

\* the flag is 'Yes', the event name is not allow-listed, and the event
\* still yields an attribute object
C7_Witness ==
    /\ Shaped
    /\ config.importUserAttributesInAllEvents = "Yes"
    /\ ~EventAllowed(pluginEvent, config)
    /\ Len(body.attributes) = 1
    /\ body.events = <<>>

\* C8: the shaper emits exactly one event object (name, external_id, time,
\* properties) iff the event's name is in the eventsToExport allow-list,
\* whatever the attribute gate decides; otherwise the events list is empty.
C8_EventGate ==
    Shaped =>
        IF EventAllowed(pluginEvent, config)
        THEN /\ Len(body.events) = 1
             /\ body.events[1].name = pluginEvent.event
             /\ body.events[1].external_id = pluginEvent.distinct_id
             /\ DOMAIN body.events[1] = {"name", "external_id", "time", "properties"}
        ELSE body.events = <<>>

\* no event is emitted although the attribute gate is open and an attribute
\* object was emitted
C8_Witness ==
    /\ Shaped
    /\ body.events = <<>>
    /\ AttributeGate(pluginEvent, config)
    /\ Len(body.attributes) = 1
    /\ config.eventsToExport.defined
    /\ pluginEvent.properties.defined

\* C9: the keys of an emitted attribute object other than external_id are
\* exactly the candidate keys that the userPropertiesToExport allow-list
\* names, with the candidate's values; the candidate set is the top-level
\* $set if present, else properties.$set, else empty.
C9_AttributeKeys ==
    (Shaped /\ body.attributes # <<>>) =>
        LET attribute == body.attributes[1]
        IN  /\ DOMAIN attribute \ {EXTERNAL_ID} = FilteredKeys(pluginEvent, config)
            /\ \A k \in FilteredKeys(pluginEvent, config) :
                  attribute[k] = Candidate(pluginEvent)[k]

\* both candidate sets are present with different keys, and the attribute
\* object took its key from the top-level $set
C9_Witness ==
    /\ Shaped
    /\ pluginEvent.set.defined
    /\ DOMAIN pluginEvent.set.value = {<<"a">>}
    /\ PropertiesSet(pluginEvent.properties).defined
    /\ DOMAIN PropertiesSet(pluginEvent.properties).value = {<<>>, <<"a">>}
    /\ <<>> \in AllowList(config.userPropertiesToExport)
    /\ Len(body.attributes) = 1
    /\ DOMAIN body.attributes[1] = {<<"a">>, EXTERNAL_ID}

\* the userPropertiesToExport setting was left empty
PropertiesLeftEmpty(cfg) ==
    ~cfg.userPropertiesToExport.defined \/ cfg.userPropertiesToExport.value = <<>>

\* C10: when userPropertiesToExport is empty and eventsToExport contains the
\* event's name, the shaped result has an empty attributes list and exactly
\* one entry in the events list, whatever the event's $set holds (stated
\* for the events that have a name).
C10_EmptyPropertiesNoAttributes ==
    (/\ Shaped
     /\ PropertiesLeftEmpty(config)
     /\ pluginEvent.event # <<>>
     /\ EventAllowed(pluginEvent, config)) =>
        /\ body.attributes = <<>>
        /\ Len(body.events) = 1

\* the eventsToExport setting was left empty
EventsLeftEmpty(cfg) ==
    ~cfg.eventsToExport.defined \/ cfg.eventsToExport.value = <<>>

\* C11: when eventsToExport is left empty, no event object is exported, for
\* any inbound event name and any value of the other export settings.
C11_EmptyEventsNoEvent ==
    (Shaped /\ EventsLeftEmpty(config)) => body.events = <<>>

\* C12: the properties of every emitted event never contain a $set key; they
\* are the inbound event's properties with only the $set entry removed.
C12_PropertiesWithoutSet ==
    (Shaped /\ body.events # <<>>) =>
        LET inbound == IF pluginEvent.properties.defined
                       THEN pluginEvent.properties.value
                       ELSE EmptyObject
            emitted == body.events[1].properties
        IN  /\ DollarSet \notin DOMAIN emitted
            /\ DOMAIN emitted = DOMAIN inbound \ {DollarSet}
            /\ \A k \in DOMAIN emitted : emitted[k] = inbound[k]

\* an exported event whose properties.$set fed the attribute object and whose
\* other property is kept
C12_Witness ==
    /\ Shaped
    /\ Len(body.events) = 1
    /\ Len(body.attributes) = 1
    /\ ~pluginEvent.set.defined
    /\ pluginEvent.properties.defined
    /\ DOMAIN pluginEvent.properties.value = {DollarSet, OtherKey}
    /\ DOMAIN body.events[1].properties = {OtherKey}

\* shaping yields neither an attribute nor an event for the inbound event
ShapesNothing(e, cfg) == ~AttributeGate(e, cfg) /\ ~EventAllowed(e, cfg)

\* C13: an export operation makes no network call, and raises no error,
\* exactly when shaping produces no attribute and no event for every inbound
\* event it was given (onEvent shapes nothing when both settings are unset).
C13_NoCallIffNothingShaped ==
    /\ op = "onEvent" =>
          /\ requests = <<>> <=>
                \/ Falsy(config.eventsToExport) /\ Falsy(config.userPropertiesToExport)
                \/ ShapesNothing(pluginEvent, config)
          /\ requests = <<>> => result = "returned"
    /\ op = "exportEvents" =>
          /\ requests = <<>> <=>
                \A i \in DOMAIN pluginEvent : ShapesNothing(pluginEvent[i], config)
          /\ requests = <<>> => result = "returned"

\* with importUserAttributesInAllEvents = 'No', an event outside
\* eventsToExport that carries an allow-listed $set property made no request
C13_Witness ==
    /\ op = "onEvent"
    /\ config.importUserAttributesInAllEvents = "No"
    /\ ~Falsy(config.eventsToExport)
    /\ pluginEvent = EventAttribute
    /\ requests = <<>>
    /\ result = "returned"

----------------------------------------------------------------------------
(* paginateItems, lines 438-455 *)

\* largest page-size threshold paginateItems is called with
MaxPaginateAfter == 2

\* most pages one call of paginateItems asks for
MaxPages == 3

exportVars == <<config, pluginEvent, body, acc, curr, variant, requests>>

\* the export side at rest
ExportIdle ==
    /\ config = BatchConfig
    /\ pluginEvent = NoBody
    /\ body = NoBody
    /\ acc = <<>>
    /\ curr = NoBody
    /\ variant = "current"
    /\ requests = <<>>

\* the items a list endpoint may hold
ItemNames == {"x", "y"}

\* what the callback may resolve to when the threshold is n: any list of at
\* most n + 1 items (the list endpoint decides, not paginateItems)
PagesFor(n) == UNION {[1..k -> ItemNames] : k \in 0..(n + 1)}

\* variant of the test below that goes on after longer pages too
continuesAtLeast(batch, threshold) == Len(batch) >= threshold

\* runCycle = currentBatch.length === paginateAfter
continues(batch, threshold) == Len(batch) = threshold

\* variant of the concatenation below that keeps the last page only
concatLast(list, batch) == batch

\* items.concat(...currentBatch) for a page of items, none of them an array
concat(list, batch) == list \o batch

InitPaginate ==
    /\ ExportIdle
    /\ ImportIdle
    /\ op = "idle"
    /\ result = "none"

\* the call: lines 444-447
PaginateItems ==
    /\ op = "idle"
    /\ op' = "paginateItems"
    /\ result' = "pending"
    /\ paginateAfter' \in 1..MaxPaginateAfter
    /\ currentPage' = 0
    /\ items' = <<>>
    /\ currentBatch' = <<>>
    /\ runCycle' = TRUE
    /\ calls' = <<>>
    /\ fetched' = <<>>
    /\ UNCHANGED <<exportVars, now, timezoneOffset, detailsResponse, active,
                   jobVars>>

\* one round of the loop whose callback resolves: lines 448-453
Callback ==
    /\ op = "paginateItems"
    /\ result = "pending"
    /\ runCycle
    /\ currentPage < MaxPages
    /\ \E page \in PagesFor(paginateAfter) :
          /\ currentPage' = currentPage + 1
          /\ calls' = Append(calls, currentPage + 1)
          /\ fetched' = Append(fetched, page)
          /\ currentBatch' = page
          /\ items' = concat(items, page)
          /\ runCycle' = continues(page, paginateAfter)
    /\ UNCHANGED <<exportVars, op, result, paginateAfter, now, timezoneOffset,
                   detailsResponse, active,
                   jobVars>>

\* one round of the loop whose callback rejects (fetchBraze threw): the await
\* of line 450 throws and the call rejects
CallbackThrows ==
    /\ op = "paginateItems"
    /\ result = "pending"
    /\ runCycle
    /\ currentPage < MaxPages
    /\ currentPage' = currentPage + 1
    /\ calls' = Append(calls, currentPage + 1)
    /\ result' = "RetryError"
    /\ UNCHANGED <<exportVars, op, paginateAfter, items, currentBatch, runCycle,
                   fetched, now, timezoneOffset, detailsResponse, active,
                   jobVars>>

\* return items: line 454
ReturnItems ==
    /\ op = "paginateItems"
    /\ result = "pending"
    /\ ~runCycle
    /\ result' = "returned"
    /\ UNCHANGED <<exportVars, op, paginateAfter, currentPage, items,
                   currentBatch, runCycle, calls, fetched, now, timezoneOffset,
                   detailsResponse, active,
                   jobVars>>

NextPaginate == PaginateItems \/ Callback \/ CallbackThrows \/ ReturnItems

SpecPaginate == InitPaginate /\ [][NextPaginate]_vars

----------------------------------------------------------------------------
(* Properties of paginateItems *)

\* the call is over: it returned or it rejected
PaginateOver == op = "paginateItems" /\ result # "pending"

\* the page indices are 1, 2, 3, ... in increasing order without gaps
CallsInOrder ==
    /\ \A i \in DOMAIN calls : calls[i] = i
    /\ currentPage = Len(calls)

\* a round of the loop: the callback is called once more
FetchStep == Len(calls') = Len(calls) + 1

\* C15 as stated: pagination stops after the first page strictly shorter
\* than the threshold and goes on after every page that is not strictly
\* shorter.  A page longer than the threshold ends the pagination.
C15_Original_StopsWhenShorter ==
    (op = "paginateItems" /\ fetched # <<>>
       /\ Len(fetched[Len(fetched)]) >= paginateAfter) => runCycle

\* C15 (amended): paginateItems calls the callback with page indices
\* 1, 2, 3, ... in increasing order without gaps; it stops right after the
\* first returned page whose length differs from the threshold, and goes on
\* after every page of exactly threshold items.
C15_StopsWhenLengthDiffers ==
    /\ [](op = "paginateItems" => CallsInOrder)
    /\ [](op = "paginateItems" =>
            \A i \in DOMAIN fetched :
               i < Len(fetched) => Len(fetched[i]) = paginateAfter)
    /\ []((op = "paginateItems" /\ fetched # <<>>) =>
            (runCycle <=> Len(fetched[Len(fetched)]) = paginateAfter))
    /\ []((op = "paginateItems" /\ result = "returned") =>
            /\ fetched # <<>>
            /\ Len(fetched[Len(fetched)]) # paginateAfter)
    /\ [][(op = "paginateItems" /\ FetchStep) =>
            (fetched = <<>> \/ Len(fetched[Len(fetched)]) = paginateAfter)]_vars

\* two full pages were followed by a third fetch, whose page was longer than
\* the threshold and ended the pagination
C15_Witness ==
    /\ op = "paginateItems"
    /\ result = "returned"
    /\ calls = <<1, 2, 3>>
    /\ Len(fetched[1]) = paginateAfter
    /\ Len(fetched[2]) = paginateAfter
    /\ Len(fetched[3]) > paginateAfter

RECURSIVE Flatten(_)
Flatten(pages) ==
    IF pages = <<>> THEN <<>> ELSE Head(pages) \o Flatten(Tail(pages))

\* C16: paginateItems returns the concatenation, in page order, of every page
\* it fetched, nothing dropped or duplicated; N pages of exactly threshold
\* items followed by one empty page yield N * threshold items.
C16_ReturnsConcatenation ==
    /\ op = "paginateItems" => items = Flatten(fetched)
    /\ (op = "paginateItems" /\ result = "returned"
          /\ fetched[Len(fetched)] = <<>>) =>
          Len(items) = (Len(fetched) - 1) * paginateAfter

\* two full pages and an empty third page were returned as 2 * threshold
\* items
C16_Witness ==
    /\ op = "paginateItems"
    /\ result = "returned"
    /\ Len(fetched) = 3
    /\ fetched[3] = <<>>
    /\ paginateAfter = MaxPaginateAfter
    /\ Len(items) = 2 * paginateAfter

----------------------------------------------------------------------------
(* isBrazeObjectActive, lines 484-504 *)

\* a field of a JSON object: absent (Undefined), null (Some(Null)), or a value
FalsyField(f) == ~f.defined \/ f.value = Null

\* a || b
Or(a, b) == IF FalsyField(a) THEN b ELSE a

\* local times of day the check runs at, in milliseconds after midnight
TimesOfDay ==
    {0, 1, 1000 * 60, 12 * ONE_HOUR, ONE_DAY - 1000 * 60,
     ONE_DAY - 1000 * 60 + 1, ONE_DAY - 1}

\* minutes behind UTC: Europe (summer), UTC, America (winter)
TimezoneOffsets == {0 - 120, 0, 300}

\* the instant ms milliseconds before d
Before(d, ms) == DateOf(d.day, d.ms - ms)

\* instants a recency field may name: in the future, now, one and two days
\* ago, one minute less than two days ago, and a day (less a millisecond)
\* before the last midnight
RecencyInstants ==
    {Before(now, 0 - ONE_HOUR), now, Before(now, ONE_DAY),
     Before(now, 48 * ONE_HOUR - 1000 * 60), Before(now, 48 * ONE_HOUR),
     Before(getLastUTCMidnight, ONE_DAY), Before(getLastUTCMidnight, ONE_DAY - 1)}

RecencyFields ==
    {Undefined, Some(Null)} \cup {Some(toISOString(d)) : d \in RecencyInstants}

\* what the details fetch may resolve to: null, or a BrazeObjectDetailsResponse
DetailsResponses ==
    {Null} \cup [draft : BOOLEAN, last_entry : RecencyFields,
                 last_sent : RecencyFields, end_at : RecencyFields]

\* variant of the choice below that prefers end_at
lastActiveOfEndFirst(r) == Or(Or(r.end_at, r.last_sent), r.last_entry)

\* response.last_entry || response.last_sent || response.end_at
lastActiveOf(r) == Or(Or(r.last_entry, r.last_sent), r.end_at)

\* variant of the function below that takes a difference of a day as recent
isBrazeObjectActiveInclusive(r) ==
    IF r = Null \/ r.draft THEN FALSE
    ELSE LET lastActive == lastActiveOf(r)
         IN  IF ~FalsyField(lastActive)
             THEN TimeBetween(getLastUTCMidnight, ParseDate(lastActive.value)) <= ONE_DAY
             ELSE TRUE

\* variant of the function below that takes a difference of two days as recent
isBrazeObjectActiveTwoDays(r) ==
    IF r = Null \/ r.draft THEN FALSE
    ELSE LET lastActive == lastActiveOf(r)
         IN  IF ~FalsyField(lastActive)
             THEN TimeBetween(getLastUTCMidnight, ParseDate(lastActive.value)) <= 2 * ONE_DAY
             ELSE TRUE

\* lines 495-503, applied to what the details fetch resolved to
isBrazeObjectActive(r) ==
    IF r = Null \/ r.draft THEN FALSE
    ELSE LET lastActive == lastActiveOf(r)
         IN  IF ~FalsyField(lastActive)
             THEN TimeBetween(getLastUTCMidnight, ParseDate(lastActive.value)) < ONE_DAY
             ELSE TRUE

\* the check runs at some time of day in some time zone
InitActive ==
    /\ ExportIdle
    /\ op = "idle"
    /\ result = "none"
    /\ timezoneOffset \in TimezoneOffsets
    /\ \E t \in TimesOfDay : now = DateOf(19524, t + timezoneOffset * 1000 * 60)
    /\ detailsResponse = NoBody
    /\ active = FALSE
    /\ paginateAfter = 0
    /\ currentPage = 0
    /\ items = <<>>
    /\ currentBatch = <<>>
    /\ runCycle = FALSE
    /\ calls = <<>>
    /\ fetched = <<>>
    /\ JobIdle

\* the call whose details fetch resolves
IsBrazeObjectActive ==
    /\ op = "idle"
    /\ op' = "isBrazeObjectActive"
    /\ \E r \in DetailsResponses :
          /\ detailsResponse' = r
          /\ active' = isBrazeObjectActive(r)
    /\ result' = "returned"
    /\ UNCHANGED <<exportVars, now, timezoneOffset, paginateAfter, currentPage,
                   items, currentBatch, runCycle, calls, fetched,
                   jobVars>>

\* the call whose details fetch rejects (fetchBraze threw): the await of
\* line 490 throws
DetailsFetchThrows ==
    /\ op = "idle"
    /\ op' = "isBrazeObjectActive"
    /\ result' = "RetryError"
    /\ UNCHANGED <<exportVars, now, timezoneOffset, detailsResponse, active,
                   paginateAfter, currentPage, items, currentBatch, runCycle,
                   calls, fetched,
                   jobVars>>

NextActive == IsBrazeObjectActive \/ DetailsFetchThrows

SpecActive == InitActive /\ [][NextActive]_vars

----------------------------------------------------------------------------
(* Properties of isBrazeObjectActive *)

\* isBrazeObjectActive returned a boolean
Checked == op = "isBrazeObjectActive" /\ result = "returned"

\* the details fetch resolved to an object that is not a draft
NonDraft == Checked /\ detailsResponse # Null /\ ~detailsResponse.draft

\* the last instant at which the process's local clock read 00:00:00.000
LastMidnight == Before(now, LocalTime(now).ms)

\* the field is there and holds a timestamp
Present(f) == f.defined /\ f.value # Null

\* the highest-priority recency field that is present (end_at if none is)
Deciding(r) ==
    IF Present(r.last_entry) THEN r.last_entry
    ELSE IF Present(r.last_sent) THEN r.last_sent
    ELSE r.end_at

\* how long before instant d the timestamp of field f lies
AgeAt(d, f) == TimeBetween(d, ParseDate(f.value))

AlmostTwoDaysAgo ==
    /\ NonDraft
    /\ Present(Deciding(detailsResponse))
    /\ AgeAt(now, Deciding(detailsResponse)) = 48 * ONE_HOUR - 1000 * 60

\* C20 as stated: a recency timestamp 47 hours 59 minutes before now makes
\* the object active at whatever time of day the check runs.
C20_Original_AlmostTwoDaysActive == AlmostTwoDaysAgo => active

\* C20 (amended): a non-draft object whose recency timestamp lies exactly 47
\* hours 59 minutes before the current time is reported active only when the
\* check runs more than 23 hours 59 minutes after the last midnight, and
\* inactive at every other time of day.
C20_AlmostTwoDaysActiveLateOnly ==
    AlmostTwoDaysAgo => (active <=> LocalTime(now).ms > ONE_DAY - 1000 * 60)

\* checked in the last minute of the local day, ahead of UTC: active
C20_Witness ==
    /\ AlmostTwoDaysAgo
    /\ LocalTime(now).ms = ONE_DAY - 1
    /\ timezoneOffset < 0
    /\ active

----------------------------------------------------------------------------
(* One call of fetchBraze, for every answer of the remote end *)

FetchStatuses == {200, 201, 204, 301, 400, 401, 404, 429, 500, 503}

\* /users/track answers 201 with message success and the minor errors
FetchBodies ==
    ResponseBodies
    \cup {Json([message |-> "success", errors |-> "unknown attribute"])}

FetchResponses ==
    {[network |-> FALSE]}
    \cup {[network |-> TRUE, status |-> st, body |-> b] :
             st \in FetchStatuses, b \in FetchBodies}

InitFetch ==
    /\ ExportIdle
    /\ ImportIdle
    /\ op = "idle"
    /\ result = "none"

FetchBraze ==
    /\ op = "idle"
    /\ op' = "fetchBraze"
    /\ \E v \in Variants, response \in FetchResponses :
          /\ variant' = v
          /\ httpResponse' = response
          /\ settlement' = fetchBraze(v, response)
          /\ errorsLogged' = logsErrors(v, response)
    /\ UNCHANGED <<config, pluginEvent, body, acc, curr, requests, result,
                   importVars, formatted, trackVars, transformVars>>

NextFetch == FetchBraze

SpecFetch == InitFetch /\ [][NextFetch]_vars

----------------------------------------------------------------------------
(* Properties of fetchBraze *)

Fetched == op = "fetchBraze"

\* the response classes
NetworkFailure == ~httpResponse.network
Status5xx == httpResponse.network /\ httpResponse.status \in 500..599
Status2xx == httpResponse.network /\ httpResponse.status \in 200..299
StatusOther == httpResponse.network /\ ~Status5xx /\ ~Status2xx

\* the body is JSON text (of an object or of null)
Parses == httpResponse.body.json

\* the body is a JSON object with an errors field
HasErrors ==
    /\ Parses
    /\ httpResponse.body.value # Null
    /\ "errors" \in DOMAIN httpResponse.body.value

\* C21 as stated: a network failure or a 5xx status throws RetryError, any
\* other non-2xx status returns null, a 2xx status returns the parsed body
\* (null if it does not parse), and an errors field is logged without
\* throwing.
C21_Original_ByResponseClass ==
    Fetched =>
       /\ (NetworkFailure \/ Status5xx) => settlement = Rejected("RetryError")
       /\ StatusOther => settlement = Fulfilled(Null)
       /\ Status2xx =>
             /\ settlement.state = "fulfilled"
             /\ Parses => settlement.value = httpResponse.body.value
             /\ HasErrors => errorsLogged

\* C21 (amended): a network failure or a 5xx status makes fetchBraze throw
\* RetryError.  For any other status the current fetchBraze returns the
\* parsed JSON body whatever the status, 2xx or not, and null when the body
\* does not parse; the earlier fetchBraze returns null for a non-2xx status
\* and for a 2xx status returns the parsed body, failing with a
\* non-retryable error when the body does not parse or parses to null.  A
\* returned body with an errors field is logged without throwing.
C21_ByResponseClassAndVariant ==
    Fetched =>
       /\ (NetworkFailure \/ Status5xx) => settlement = Rejected("RetryError")
       /\ (variant = "current" /\ (Status2xx \/ StatusOther)) =>
             /\ Parses => settlement = Fulfilled(httpResponse.body.value)
             /\ ~Parses => settlement = Fulfilled(Null)
             /\ errorsLogged <=> HasErrors
       /\ (variant = "earlier" /\ StatusOther) =>
             /\ settlement = Fulfilled(Null)
             /\ ~errorsLogged
       /\ (variant = "earlier" /\ Status2xx) =>
             /\ (Parses /\ httpResponse.body.value # Null) =>
                   settlement = Fulfilled(httpResponse.body.value)
             /\ ~Parses => settlement = Rejected("SyntaxError")
             /\ (Parses /\ httpResponse.body.value = Null) =>
                   settlement = Rejected("TypeError")
             /\ errorsLogged <=> HasErrors

\* the current fetchBraze returned, and logged, the errors body of a 400
C21_Witness ==
    /\ Fetched
    /\ variant = "current"
    /\ httpResponse.network
    /\ httpResponse.status = 400
    /\ HasErrors
    /\ settlement = Fulfilled(httpResponse.body.value)
    /\ errorsLogged

----------------------------------------------------------------------------
(* ISODateString applied to instants, lines 103-123 *)

\* days: 1970-01-01, 2022-03-28, 2023-12-31, 2024-02-29
FormatDays == {0, 19079, 19722, 19782}

\* seconds into the day: 00:00:00, 09:13:40, 23:59:59
FormatSeconds == {0, 33220, 86399}

\* milliseconds into the second, of one, two and three digits
FormatMilliseconds == {0, 1, 9, 10, 59, 99, 100, 359, 999}

\* no paginateItems and no isBrazeObjectActive call under way
ListingIdle ==
    /\ detailsResponse = NoBody
    /\ active = FALSE
    /\ paginateAfter = 0
    /\ currentPage = 0
    /\ items = <<>>
    /\ currentBatch = <<>>
    /\ runCycle = FALSE
    /\ calls = <<>>
    /\ fetched = <<>>

\* the instant handed to ISODateString is carried by now
InitDate ==
    /\ ExportIdle
    /\ op = "idle"
    /\ result = "none"
    /\ timezoneOffset = 0
    /\ \E day \in FormatDays, sec \in FormatSeconds, ms \in FormatMilliseconds :
          now = DateOf(day, sec * 1000 + ms)
    /\ ListingIdle
    /\ JobIdle

FormatDate ==
    /\ op = "idle"
    /\ op' = "ISODateString"
    /\ formatted' = ISODateString(now)
    /\ UNCHANGED <<exportVars, result, importVars, httpResponse, settlement,
                   errorsLogged, trackVars, transformVars>>

NextDate == FormatDate

SpecDate == InitDate /\ [][NextDate]_vars

----------------------------------------------------------------------------
(* Properties of ISODateString *)

\* the decimal digits of n, zero-padded on the left to the given width
RECURSIVE PadTo(_, _)
PadTo(n, width) ==
    IF width = 0 THEN <<>> ELSE Append(PadTo(n \div 10, width - 1), n % 10)

\* the numeric fields of the ISO-8601 UTC string of instant d, with
\* millisecond precision: YYYY-MM-DDTHH:MM:SS.mmmZ
ISO8601(d) ==
    LET civil == CivilFromDays(d.day)
    IN  << PadTo(civil.year, 4), PadTo(civil.month + 1, 2), PadTo(civil.date, 2),
           PadTo(d.ms \div ONE_HOUR, 2), PadTo((d.ms \div 60000) % 60, 2),
           PadTo((d.ms \div 1000) % 60, 2), PadTo(d.ms % 1000, 3) >>

\* C22: for every instant d, ISODateString(d) is the ISO-8601 UTC string
\* with millisecond precision, with a three-digit millisecond field for
\* every millisecond value 0..999.
C22_ISO8601Milliseconds ==
    op = "ISODateString" =>
       /\ formatted = ISO8601(now)
       /\ Len(formatted[7]) = 3

----------------------------------------------------------------------------
(* The import jobs, lines 526-537, 585-611, 693-730, 754-769, 912-922,
   949-975 and 999-1010 *)

\* most items the list endpoint holds for one resource type
MaxListed == 2

BRAZE_PAGINATION_BY_OBJECT_TYPE ==
    [campaigns |-> 100, canvas |-> 100, events |-> 250, feed |-> 100,
     segments |-> 100]

TopJobs ==
    {"trackCampaigns", "trackCanvases", "trackCustomEvents", "trackFeeds",
     "trackSegments"}

\* the BrazeObject each top-level job hands to paginateItems
ListedObject(job) ==
    CASE job = "trackCampaigns" -> "campaigns"
      [] job = "trackCanvases" -> "campaigns"
      [] job = "trackCustomEvents" -> "events"
      [] job = "trackFeeds" -> "feed"
      [] job = "trackSegments" -> "segments"

\* the threshold each top-level job hands to paginateItems
PaginationOf(job) ==
    CASE job = "trackCampaigns" -> BRAZE_PAGINATION_BY_OBJECT_TYPE.campaigns
      [] job = "trackCanvases" -> BRAZE_PAGINATION_BY_OBJECT_TYPE.canvas
      [] job = "trackCustomEvents" -> BRAZE_PAGINATION_BY_OBJECT_TYPE.events
      [] job = "trackFeeds" -> BRAZE_PAGINATION_BY_OBJECT_TYPE.feed
      [] job = "trackSegments" -> BRAZE_PAGINATION_BY_OBJECT_TYPE.segments

\* the per-item job each top-level job triggers
ItemJob(job) ==
    CASE job = "trackCampaigns" -> "trackCampaign"
      [] job = "trackCanvases" -> "trackCanvas"
      [] job = "trackCustomEvents" -> "trackCustomEvent"
      [] job = "trackFeeds" -> "trackFeed"
      [] job = "trackSegments" -> "trackSegment"

\* the BrazeObject a per-item job asks details and data series of
TrackedObject(itemJob) ==
    CASE itemJob = "trackCampaign" -> "campaigns"
      [] itemJob = "trackCanvas" -> "canvas"
      [] itemJob = "trackCustomEvent" -> "events"
      [] itemJob = "trackFeed" -> "feed"
      [] itemJob = "trackSegment" -> "segments"

\* the idKey handed to isBrazeObjectActive
IdKey(itemJob) ==
    CASE itemJob = "trackCampaign" -> "campaign_id"
      [] itemJob = "trackCanvas" -> "canvas_id"
      [] itemJob = "trackFeed" -> "card_id"
      [] itemJob = "trackSegment" -> "segment_id"

\* the name of the first parameter of the data-series query
QueryKey(itemJob) ==
    CASE itemJob = "trackCampaign" -> "$campaign_id"
      [] itemJob = "trackCanvas" -> "canvas_id"
      [] itemJob = "trackCustomEvent" -> "event"
      [] itemJob = "trackFeed" -> "$card_id"
      [] itemJob = "trackSegment" -> "$segment_id"

\* what precedes the name in the event string
EventPrefix(itemJob) ==
    CASE itemJob = "trackCampaign" -> "Braze campaign: "
      [] itemJob = "trackCanvas" -> "Braze canvas: "
      [] itemJob = "trackCustomEvent" -> "Braze event: "
      [] itemJob = "trackFeed" -> "Braze News Feed Card: "
      [] itemJob = "trackSegment" -> "Braze Segment: "

\* object[key] (undefined for a key the object lacks)
Get(object, key) == IF key \in DOMAIN object THEN Some(object[key]) ELSE Undefined

\* the n-th entry the list endpoint of a resource type holds: an object with
\* id and name, or for /events/list a string
Listed(object, n) ==
    IF object = "events" THEN [of |-> object, field |-> "name", n |-> n]
    ELSE [id |-> [of |-> object, field |-> "id", n |-> n],
          name |-> [of |-> object, field |-> "name", n |-> n]]

\* getItems (lines 468-470) and getEvents (lines 712-714): the Item made of
\* one entry of the list
ItemOf(object, entry) ==
    IF object = "events" THEN [id |-> entry, name |-> entry]
    ELSE [id |-> entry.id, name |-> entry.name]

\* what fetchBraze settles to for /<object>/list: the list is held under
\* the key named after the resource type
ListSettlements(object) ==
    {Rejected("RetryError"), Fulfilled(Null)}
    \cup {Fulfilled([key \in {object} |-> [i \in 1..k |-> Listed(object, i)]]) :
             k \in 0..MaxListed}

\* the page getItems / getEvents resolves to: response[brazeObject].map(...)
\* or response.events.map(...), and [] for no response
PageOf(object, value) ==
    IF value = Null THEN <<>>
    ELSE [i \in DOMAIN value[object] |-> ItemOf(object, value[object][i])]

\* the identifier and the name a per-item job reads off its payload:
\* trackCustomEvent destructures { event }, the other jobs read item.id and
\* item.name
IdentifierOf(itemJob, payload) ==
    IF itemJob = "trackCustomEvent" THEN Get(payload, "event") ELSE Get(payload, "id")

NameOf(itemJob, payload) ==
    IF itemJob = "trackCustomEvent" THEN Get(payload, "event") ELSE Get(payload, "name")

\* the details a job may be answered: none, a draft, an object without
\* recency fields, one last sent now and one last sent two days ago
JobDetails ==
    {Null}
    \cup {[draft |-> d, last_entry |-> Undefined, last_sent |-> ls, end_at |-> Undefined] :
             d \in BOOLEAN,
             ls \in {Undefined, Some(toISOString(now)),
                     Some(toISOString(Before(now, 48 * ONE_HOUR)))}}

\* what fetchBraze settles to for /<object>/data_series: the data holds
\* that many entries
SeriesSettlements ==
    {Rejected("RetryError"), Fulfilled(Null),
     Fulfilled([data |-> 0]), Fulfilled([data |-> 1])}

\* getDataSeries: response ? response.data : null
getDataSeries(value) ==
    IF value = Null THEN Undefined ELSE Get(value, "data")

\* variant of the test below that stops the loop after one job
loopDoneAfterOne(list, jobs) == Len(jobs) >= 1 \/ Len(list) = 0

\* for (const item of items): the loop is over
loopDone(list, jobs) == Len(jobs) = Len(list)

\* variant of the test below that goes on whatever the details say
proceedsAlways(isActive) == TRUE

\* if (!isActive) return
proceeds(isActive) == isActive

Answer(i, endpoint, settled) ==
    [job |-> i, endpoint |-> endpoint, settled |-> settled]

BrazeCall(i, endpoint, object, key, value) ==
    [job |-> i, endpoint |-> endpoint, object |-> object, key |-> key,
     value |-> value]

\* the plugin of lines 259-1170: its setupPlugin installs the earlier
\* fetchBraze
InitImport ==
    /\ config = BatchConfig
    /\ pluginEvent = NoBody
    /\ body = NoBody
    /\ acc = <<>>
    /\ curr = NoBody
    /\ variant = "earlier"
    /\ requests = <<>>
    /\ ImportIdle
    /\ op = "idle"
    /\ result = "none"

clockVars == <<now, timezoneOffset, detailsResponse, active>>

pageVars == <<paginateAfter, currentPage, items, currentBatch, runCycle, calls,
              fetched>>

fetchVars == <<httpResponse, settlement, errorsLogged, formatted,
               transformVars>>

\* a top-level job is called: lines 527 and 444-447
TrackItems ==
    /\ op = "idle"
    /\ op' \in TopJobs
    /\ result' = "pending"
    /\ paginateAfter' = PaginationOf(op')
    /\ currentPage' = 0
    /\ items' = <<>>
    /\ currentBatch' = <<>>
    /\ runCycle' = TRUE
    /\ calls' = <<>>
    /\ fetched' = <<>>
    /\ UNCHANGED <<exportVars, clockVars, fetchVars, trackVars>>

\* one round of the loop of paginateItems, lines 448-453, with getItems or
\* getEvents as its callback
ListSettles ==
    /\ op \in TopJobs
    /\ result = "pending"
    /\ runCycle
    /\ currentPage' = currentPage + 1
    /\ calls' = Append(calls, currentPage + 1)
    /\ brazeCalls' = Append(brazeCalls,
          BrazeCall(0, "list", ListedObject(op), "page", Some(currentPage + 1)))
    /\ \E st \in ListSettlements(ListedObject(op)) :
          IF st.state = "rejected"
          THEN /\ result' = st.error
               /\ UNCHANGED <<items, currentBatch, runCycle, fetched>>
          ELSE LET page == PageOf(ListedObject(op), st.value)
               IN  /\ fetched' = Append(fetched, page)
                   /\ currentBatch' = page
                   /\ items' = concat(items, page)
                   /\ runCycle' = continues(page, paginateAfter)
                   /\ UNCHANGED result
    /\ UNCHANGED <<exportVars, clockVars, fetchVars, op, paginateAfter,
                   triggered, jobState, answers, captured>>

\* await meta.jobs.trackX(item).runNow(): the job is handed to the job
\* queue of the plugin server, which runs it on its own
RunNow ==
    /\ op \in TopJobs
    /\ result = "pending"
    /\ ~runCycle
    /\ ~loopDone(items, triggered)
    /\ triggered' = Append(triggered,
          [job |-> ItemJob(op), payload |-> items[Len(triggered) + 1]])
    /\ jobState' = Append(jobState, "queued")
    /\ UNCHANGED <<exportVars, clockVars, fetchVars, pageVars, op, result,
                   brazeCalls, answers, captured>>

\* the loop is over and the top-level job returns
TrackReturns ==
    /\ op \in TopJobs
    /\ result = "pending"
    /\ ~runCycle
    /\ loopDone(items, triggered)
    /\ result' = "returned"
    /\ UNCHANGED <<exportVars, clockVars, fetchVars, pageVars, op, trackVars>>

JobActive(i) == jobState[i] \in {"details", "series", "capture"}

\* the line of the data-series request of job i
SeriesCall(i) ==
    LET j == triggered[i].job
    IN  BrazeCall(i, "data_series", TrackedObject(j), QueryKey(j),
                  IdentifierOf(j, triggered[i].payload))

\* the job queue starts a queued job, which issues its first request: the
\* details request (lines 586, 694, 950, 1000), or for trackCustomEvent the
\* data-series request (line 763)
StartJob(i) ==
    /\ i \in DOMAIN triggered
    /\ jobState[i] = "queued"
    /\ \A k \in DOMAIN jobState : ~JobActive(k)
    /\ LET j == triggered[i].job
       IN  IF j = "trackCustomEvent"
           THEN /\ jobState' = [jobState EXCEPT ![i] = "series"]
                /\ brazeCalls' = Append(brazeCalls, SeriesCall(i))
           ELSE /\ jobState' = [jobState EXCEPT ![i] = "details"]
                /\ brazeCalls' = Append(brazeCalls,
                      BrazeCall(i, "details", TrackedObject(j), IdKey(j),
                                Get(triggered[i].payload, "id")))
    /\ UNCHANGED <<exportVars, clockVars, fetchVars, pageVars, op, result,
                   triggered, answers, captured>>

\* the details request of job i settles: lines 586-590
DetailsSettles(i) ==
    /\ i \in DOMAIN triggered
    /\ jobState[i] = "details"
    /\ \/ /\ jobState' = [jobState EXCEPT ![i] = "RetryError"]
          /\ answers' = Append(answers, Answer(i, "details", Rejected("RetryError")))
          /\ UNCHANGED brazeCalls
       \/ \E r \in JobDetails :
             /\ answers' = Append(answers, Answer(i, "details", Fulfilled(r)))
             /\ IF proceeds(isBrazeObjectActive(r))
                THEN /\ jobState' = [jobState EXCEPT ![i] = "series"]
                     /\ brazeCalls' = Append(brazeCalls, SeriesCall(i))
                ELSE /\ jobState' = [jobState EXCEPT ![i] = "returned"]
                     /\ UNCHANGED brazeCalls
    /\ UNCHANGED <<exportVars, clockVars, fetchVars, pageVars, op, result,
                   triggered, captured>>

\* the data-series request of job i settles: lines 591-597
SeriesSettles(i) ==
    /\ i \in DOMAIN triggered
    /\ jobState[i] = "series"
    /\ \E st \in SeriesSettlements :
          /\ answers' = Append(answers, Answer(i, "data_series", st))
          /\ IF st.state = "rejected"
             THEN /\ jobState' = [jobState EXCEPT ![i] = st.error]
                  /\ UNCHANGED captured
             ELSE LET dataSeries == getDataSeries(st.value)
                      j == triggered[i].job
                  IN  IF ~dataSeries.defined
                      THEN /\ jobState' = [jobState EXCEPT ![i] = "returned"]
                           /\ UNCHANGED captured
                      ELSE /\ jobState' = [jobState EXCEPT ![i] = "capture"]
                           /\ captured' = Append(captured,
                                 [job |-> i, prefix |-> EventPrefix(j),
                                  name |-> NameOf(j, triggered[i].payload),
                                  events |-> dataSeries.value])
    /\ UNCHANGED <<exportVars, clockVars, fetchVars, pageVars, op, result,
                   triggered, brazeCalls>>

\* posthog.api.post('/capture/') of job i settles: lines 1044-1050
CaptureSettles(i) ==
    /\ i \in DOMAIN triggered
    /\ jobState[i] = "capture"
    /\ \E outcome \in {"returned", "Error"} :
          jobState' = [jobState EXCEPT ![i] = outcome]
    /\ UNCHANGED <<exportVars, clockVars, fetchVars, pageVars, op, result,
                   triggered, brazeCalls, answers, captured>>

NextImport ==
    \/ TrackItems
    \/ ListSettles
    \/ RunNow
    \/ TrackReturns
    \/ \E i \in 1..MaxListed :
          StartJob(i) \/ DetailsSettles(i) \/ SeriesSettles(i) \/ CaptureSettles(i)

SpecImport == InitImport /\ [][NextImport]_vars

----------------------------------------------------------------------------
(* Properties of the import jobs *)

Importing == op \in TopJobs

\* C23: in a multi-item import the failure of one item's tracking (its
\* details or data-series fetch failing, or the item being inactive) does
\* not abort the tracking of the items listed after it: every listed item
\* still gets its per-item job triggered.
C23_SiblingsStillTriggered ==
    /\ (Importing /\ result = "returned") =>
          /\ Len(triggered) = Len(items)
          /\ \A i \in DOMAIN items :
                triggered[i] = [job |-> ItemJob(op), payload |-> items[i]]
    /\ (Importing /\ triggered # <<>>) => result \in {"pending", "returned"}
    /\ (Importing /\ result = "pending" /\ ~runCycle
          /\ Len(triggered) < Len(items)) => ENABLED RunNow
    /\ \A i \in DOMAIN triggered :
          (jobState[i] = "queued" /\ \A k \in DOMAIN triggered : ~JobActive(k))
             => ENABLED StartJob(i)

\* the first job failed on a fetch, the job of the item listed after it was
\* triggered all the same and got as far as its capture call
C23_Witness ==
    /\ Importing
    /\ result = "returned"
    /\ Len(items) = 2
    /\ jobState = <<"RetryError", "capture">>

\* the jobs that check the details first: trackCampaign, trackCanvas,
\* trackFeed and trackSegment
DetailedJobs == {i \in DOMAIN triggered : triggered[i].job # "trackCustomEvent"}

CallIndexes(i, endpoint) ==
    {k \in DOMAIN brazeCalls :
        brazeCalls[k].job = i /\ brazeCalls[k].endpoint = endpoint}

AnswersOf(i, endpoint) ==
    {answers[k].settled : k \in {n \in DOMAIN answers :
        answers[n].job = i /\ answers[n].endpoint = endpoint}}

CapturesOf(i) == {k \in DOMAIN captured : captured[k].job = i}

\* the details of the item of job i came back and said it is active
FoundActive(i) ==
    \E a \in AnswersOf(i, "details") :
       /\ a.state = "fulfilled"
       /\ a.value # Null
       /\ ~a.value.draft
       /\ isBrazeObjectActive(a.value)

\* the data-series request of job i came back with a response
SeriesNonNull(i) ==
    \E a \in AnswersOf(i, "data_series") : a.state = "fulfilled" /\ a.value # Null

\* one of the two requests of job i was answered null
NullAnswer(i) ==
    Fulfilled(Null) \in AnswersOf(i, "details") \cup AnswersOf(i, "data_series")

\* C24: a per-item job (trackCampaign, trackCanvas, trackFeed, trackSegment)
\* runs details check, data-series fetch and capture in that order: the
\* data-series fetch is issued only if the item was found active, the
\* capture call is made exactly once iff the item is active and the
\* data-series response is non-null, and a null response at either step ends
\* the job silently, with no capture call and no error.
C24_DetailsSeriesCapture ==
    /\ [](\A i \in DetailedJobs :
            /\ Cardinality(CallIndexes(i, "details")) <= 1
            /\ Cardinality(CallIndexes(i, "data_series")) <= 1
            /\ \A s \in CallIndexes(i, "data_series") :
                  \E d \in CallIndexes(i, "details") : d < s
            /\ CallIndexes(i, "data_series") # {} <=> FoundActive(i)
            /\ Cardinality(CapturesOf(i)) <= 1
            /\ CapturesOf(i) # {} <=> (FoundActive(i) /\ SeriesNonNull(i))
            /\ NullAnswer(i) => (jobState[i] = "returned" /\ CapturesOf(i) = {}))
    /\ [][\A i \in DetailedJobs :
            Len(captured') > Len(captured) /\ captured'[Len(captured')].job = i
               => /\ CallIndexes(i, "data_series") # {}
                  /\ AnswersOf(i, "data_series") = {}
                  /\ AnswersOf(i, "data_series")' # {}]_vars

\* a trackCanvas job found its item active, got a data series and made its
\* one capture call
C24_Witness ==
    /\ 1 \in DetailedJobs
    /\ triggered[1].job = "trackCanvas"
    /\ FoundActive(1)
    /\ SeriesNonNull(1)
    /\ Cardinality(CapturesOf(1)) = 1
    /\ jobState[1] = "returned"

\* the resource type a top-level job is about
OwnObject(job) ==
    CASE job = "trackCampaigns" -> "campaigns"
      [] job = "trackCanvases" -> "canvas"
      [] job = "trackCustomEvents" -> "events"
      [] job = "trackFeeds" -> "feed"
      [] job = "trackSegments" -> "segments"

\* C28: each top-level import job pages through the list endpoint of its own
\* resource type (trackCampaigns campaigns, trackCanvases canvases,
\* trackFeeds feed cards, trackSegments segments, trackCustomEvents custom
\* events), so that every per-item job is triggered with an item of the
\* resource type it tracks.
C28_ListsOwnResourceType ==
    Importing =>
       /\ \A k \in DOMAIN brazeCalls :
             brazeCalls[k].endpoint = "list" => brazeCalls[k].object = OwnObject(op)
       /\ \A i \in DOMAIN triggered :
             triggered[i].payload.id.of = TrackedObject(triggered[i].job)

\* C29: for every item returned by a listing, the per-item job triggered for
\* it queries the data series with that item's own identifier and emits
\* events whose name carries that item's own name; the identifier and the
\* name are never undefined in the query or in the event name.
C29_OwnIdentifierAndName ==
    /\ \A k \in DOMAIN brazeCalls :
          brazeCalls[k].endpoint = "data_series" =>
             /\ brazeCalls[k].value.defined
             /\ brazeCalls[k].value.value = triggered[brazeCalls[k].job].payload.id
    /\ \A k \in DOMAIN captured :
          /\ captured[k].name.defined
          /\ captured[k].name.value = triggered[captured[k].job].payload.name

\* ---------------------------------------------------------------------------
\* transformCampaignDataSeriesToPostHogEvents (src/index.ts 548-583)
\* ---------------------------------------------------------------------------

\* The largest number of variations listed under one channel of `messages`.
MaxVariations == 2

\* Object.assign-like write of the properties `more` into `properties`: a key
\* written again takes the later value.
Assign(properties, more) == more @@ properties

variationKeyOfChannelOnly(messageKey, variation) == messageKey

variationKeyOf(messageKey, variation) ==
    IF "variation_name" \in DOMAIN variation /\ variation["variation_name"] # ""
    THEN messageKey \o ":" \o variation["variation_name"]
    ELSE messageKey

\* The properties one variation contributes: every sub-key except
\* variation_name, under `${variationKey}:${subKey}`.
flattenVariation(variationKey, variation) ==
    LET subKeys == DOMAIN variation \ {"variation_name"}
    IN  [k \in {variationKey \o ":" \o subKey : subKey \in subKeys} |->
            variation[CHOOSE subKey \in subKeys : variationKey \o ":" \o subKey = k]]

\* for (const variation of currentMessages): the variations of one channel,
\* in list order.
RECURSIVE flattenChannel(_, _, _)
flattenChannel(properties, messageKey, currentMessages) ==
    IF currentMessages = <<>> THEN properties
    ELSE flattenChannel(
            Assign(properties,
                   flattenVariation(variationKeyOf(messageKey, Head(currentMessages)),
                                    Head(currentMessages))),
            messageKey, Tail(currentMessages))

\* for (const messageKey of Object.keys(item.messages)).
RECURSIVE flattenMessages(_, _, _)
flattenMessages(properties, messages, messageKeys) ==
    IF messageKeys = {} THEN properties
    ELSE LET messageKey == CHOOSE k \in messageKeys : TRUE
         IN  flattenMessages(flattenChannel(properties, messageKey, messages[messageKey]),
                             messages, messageKeys \ {messageKey})

\* Object.keys(item).reduce(...): messages is flattened, time is dropped,
\* every other key is copied.
RECURSIVE campaignProperties(_, _, _)
campaignProperties(properties, item, keys) ==
    IF keys = {} THEN properties
    ELSE LET currentKey == CHOOSE k \in keys : TRUE
             next == IF currentKey = "messages"
                     THEN flattenMessages(properties, item["messages"],
                                          DOMAIN item["messages"])
                     ELSE IF currentKey # "time"
                          THEN Assign(properties, [k \in {currentKey} |-> item[currentKey]])
                          ELSE properties
         IN  campaignProperties(next, item, keys \ {currentKey})

RECURSIVE transformCampaignDataSeriesToPostHogEvents(_, _)
transformCampaignDataSeriesToPostHogEvents(dataSeries, name) ==
    IF dataSeries = <<>> THEN <<>>
    ELSE LET item == Head(dataSeries)
         IN  <<[event |-> "Braze campaign: " \o name,
                properties |-> campaignProperties(EmptyObject, item, DOMAIN item),
                timestamp |-> item["time"]]>>
             \o transformCampaignDataSeriesToPostHogEvents(Tail(dataSeries), name)

\* --- the data series the campaign transform is applied to -------------------

\* One entry of messages[channel]: the counter `sent`, with or without a
\* variation_name.
Variations ==
    {[k \in {"sent"} |-> n] : n \in {1, 2}}
    \cup {("variation_name" :> v) @@ ("sent" :> n) : v \in {"V", "W"}, n \in {1, 2}}

RECURSIVE SeqsUpTo(_, _)
SeqsUpTo(S, n) ==
    IF n = 0 THEN {<<>>}
    ELSE LET shorter == SeqsUpTo(S, n - 1)
         IN  shorter \cup {Append(q, x) : q \in {r \in shorter : Len(r) = n - 1}, x \in S}

\* The data series: items with time, with or without a top-level scalar and
\* messages of up to two channels, alone or followed by a later item.
CampaignDataSeries ==
    LET messages ==
            {EmptyObject}
            \cup {("ios_push" :> l) : l \in SeqsUpTo(Variations, MaxVariations)}
            \cup {("email" :> l) : l \in SeqsUpTo(Variations, 1)}
            \cup {("ios_push" :> l) @@ ("email" :> m) :
                     l \in SeqsUpTo(Variations, MaxVariations),
                     m \in SeqsUpTo(Variations, 1)}
        time == ("time" :> "2022-03-28")
        first ==
            {time, time @@ ("conversions" :> 3)}
            \cup {time @@ ("messages" :> m) : m \in messages}
            \cup {time @@ ("conversions" :> 3) @@ ("messages" :> m) : m \in messages}
        later ==
            {("time" :> "2022-03-29") @@ ("conversions" :> 4),
             ("time" :> "2022-03-29")
                @@ ("messages" :> ("ios_push" :> <<[k \in {"sent"} |-> 1]>>))}
    IN  {<<>>} \cup {<<i>> : i \in first} \cup {<<i, l>> : i \in first, l \in later}

InitCampaign ==
    /\ ExportIdle
    /\ now = DateOf(19524, 0)
    /\ timezoneOffset = 0
    /\ ListingIdle
    /\ triggered = <<>>
    /\ jobState = <<>>
    /\ brazeCalls = <<>>
    /\ answers = <<>>
    /\ captured = <<>>
    /\ httpResponse = NoBody
    /\ settlement = NoBody
    /\ errorsLogged = FALSE
    /\ formatted = NoBody
    /\ op = "idle"
    /\ result = [kind |-> "none"]
    /\ \E dataSeries \in CampaignDataSeries :
          dataSeriesIn = [dataSeries |-> dataSeries, name |-> "Summer"]
    /\ postHogEvents = Undefined

TransformCampaign ==
    /\ op = "idle"
    /\ op' = "transformCampaignDataSeriesToPostHogEvents"
    /\ postHogEvents' =
          Some(transformCampaignDataSeriesToPostHogEvents(dataSeriesIn.dataSeries,
                                                          dataSeriesIn.name))
    /\ UNCHANGED <<exportVars, result, importVars, httpResponse, settlement,
                   errorsLogged, formatted, trackVars, dataSeriesIn>>

NextCampaign == TransformCampaign

SpecCampaign == InitCampaign /\ [][NextCampaign]_vars

\* --- C25 ---------------------------------------------------------------------

CampaignTransformed == op = "transformCampaignDataSeriesToPostHogEvents"

\* The key the claim names for field `field` of entry `entry` of
\* messages[channel].
FlatKey(channel, entry, field) ==
    IF "variation_name" \in DOMAIN entry
    THEN channel \o ":" \o entry["variation_name"] \o ":" \o field
    ELSE channel \o ":" \o field

EntryFields(entry) == DOMAIN entry \ {"variation_name"}

CopiedKeys(item) == DOMAIN item \ {"time", "messages"}

Channels(item) == IF "messages" \in DOMAIN item THEN DOMAIN item["messages"] ELSE {}

FlatKeys(item) ==
    UNION {{FlatKey(c, item["messages"][c][i], f) :
               f \in EntryFields(item["messages"][c][i])} :
           <<c, i>> \in {<<c, i>> \in Channels(item) \X (1..MaxVariations + 1) :
                            i \in DOMAIN item["messages"][c]}}

\* The value of the last entry of messages[c] that is flattened to key k.
LastFlattened(item, k) ==
    LET c == CHOOSE c \in Channels(item) :
                \E i \in DOMAIN item["messages"][c] :
                   \E f \in EntryFields(item["messages"][c][i]) :
                      FlatKey(c, item["messages"][c][i], f) = k
        l == item["messages"][c]
        hits == {i \in DOMAIN l : \E f \in EntryFields(l[i]) : FlatKey(c, l[i], f) = k}
        last == CHOOSE i \in hits : \A j \in hits : j <= i
        f == CHOOSE f \in EntryFields(l[last]) : FlatKey(c, l[last], f) = k
    IN  l[last][f]

\* C25: transformCampaignDataSeriesToPostHogEvents gives one event per item
\* of the data series whose property keys are exactly the item's top-level
\* keys other than time and messages, copied with their values, and, for every
\* entry of messages[channel], "<channel>:<variation_name>:<field>" when the
\* entry has a variation_name and "<channel>:<field>" when it has none, with
\* the value of the (last) entry flattened to that key; variation_name, time
\* and messages are never property keys.
C25_CampaignFlattening ==
    CampaignTransformed =>
       LET dataSeries == dataSeriesIn.dataSeries
           events == postHogEvents.value
       IN  /\ Len(events) = Len(dataSeries)
           /\ \A n \in DOMAIN dataSeries :
                 LET item == dataSeries[n]
                     properties == events[n].properties
                 IN  /\ DOMAIN properties = CopiedKeys(item) \cup FlatKeys(item)
                     /\ DOMAIN properties \cap {"variation_name", "time", "messages"} = {}
                     /\ \A k \in CopiedKeys(item) : properties[k] = item[k]
                     /\ \A k \in FlatKeys(item) : properties[k] = LastFlattened(item, k)

\* An item with a named and an unnamed entry under ios_push and a top-level
\* scalar has been transformed to "ios_push:V:sent", "ios_push:sent" and
\* "conversions".
C25_Witness ==
    /\ CampaignTransformed
    /\ Len(postHogEvents.value) >= 1
    /\ {"ios_push:V:sent", "ios_push:sent", "conversions"}
          \subseteq DOMAIN postHogEvents.value[1].properties
    /\ postHogEvents.value[1].properties["ios_push:V:sent"] = 1
    /\ postHogEvents.value[1].properties["ios_push:sent"] = 2

\* ---------------------------------------------------------------------------
\* transformCanvasDataSeriesToPostHogEvents (src/index.ts 624-691)
\* ---------------------------------------------------------------------------

\* The largest number of variants listed under variant_stats.
MaxVariants == 2

\* `${object.name}` in a template string.
NameIn(object) == IF "name" \in DOMAIN object THEN object["name"] ELSE "undefined"

mapAndPrependKeysAll(object, prependKey, skipKeys) ==
    [k \in {prependKey \o key : key \in DOMAIN object} |->
        object[CHOOSE key \in DOMAIN object : prependKey \o key = k]]

mapAndPrependKeys(object, prependKey, skipKeys) ==
    LET keys == DOMAIN object \ skipKeys
    IN  [k \in {prependKey \o key : key \in keys} |->
            object[CHOOSE key \in keys : prependKey \o key = k]]

\* for (const variantKey of Object.keys(series.variant_stats)), from the
\* n-th key on.
RECURSIVE variantStats(_, _, _)
variantStats(properties, variant_stats, n) ==
    IF n > Len(variant_stats) THEN properties
    ELSE LET variantOf == variant_stats[n]
         IN  variantStats(
                Assign(properties,
                       mapAndPrependKeys(variantOf,
                                         "variant_stats:" \o NameIn(variantOf) \o ":",
                                         {"name"})),
                variant_stats, n + 1)

\* for (const variation of currentMessages) of one channel of one step.
RECURSIVE stepChannel(_, _, _, _)
stepChannel(properties, step, messageKey, currentMessages) ==
    IF currentMessages = <<>> THEN properties
    ELSE LET variation == Head(currentMessages)
             variationKey == variationKeyOf(messageKey, variation)
         IN  stepChannel(
                Assign(properties,
                       mapAndPrependKeys(variation,
                                         "step_stats:" \o NameIn(step) \o ":"
                                            \o variationKey \o ":",
                                         {"variation_name"})),
                step, messageKey, Tail(currentMessages))

\* for (const messageKey of Object.keys(step.messages)).
RECURSIVE stepMessages(_, _, _)
stepMessages(properties, step, messageKeys) ==
    IF messageKeys = {} THEN properties
    ELSE LET messageKey == CHOOSE k \in messageKeys : TRUE
         IN  stepMessages(stepChannel(properties, step, messageKey,
                                      step["messages"][messageKey]),
                          step, messageKeys \ {messageKey})

\* for (const stepKey of Object.keys(series.step_stats)), from the n-th key
\* on: the step's message stats, then the step's own fields.
RECURSIVE stepStats(_, _, _)
stepStats(properties, step_stats, n) ==
    IF n > Len(step_stats) THEN properties
    ELSE LET step == step_stats[n]
             withMessages == stepMessages(properties, step, DOMAIN step["messages"])
         IN  stepStats(
                Assign(withMessages,
                       mapAndPrependKeys(step, "step_stats:" \o NameIn(step) \o ":",
                                         {"messages", "name"})),
                step_stats, n + 1)

\* Object.keys(series).reduce(...) with its switch on currentKey.
RECURSIVE canvasProperties(_, _, _)
canvasProperties(properties, series, keys) ==
    IF keys = {} THEN properties
    ELSE LET currentKey == CHOOSE k \in keys : TRUE
             next ==
                CASE currentKey = "total_stats" ->
                        Assign(properties,
                               mapAndPrependKeys(series["total_stats"], "total_stats:", {}))
                  [] currentKey = "variant_stats" ->
                        variantStats(properties, series["variant_stats"], 1)
                  [] currentKey = "step_stats" ->
                        stepStats(properties, series["step_stats"], 1)
                  [] OTHER -> properties
         IN  canvasProperties(next, series, keys \ {currentKey})

RECURSIVE canvasEvents(_, _)
canvasEvents(stats, name) ==
    IF stats = <<>> THEN <<>>
    ELSE LET series == Head(stats)
         IN  <<[event |-> "Braze canvas: " \o name,
                properties |-> canvasProperties(EmptyObject, series, DOMAIN series),
                timestamp |-> series["time"]]>>
             \o canvasEvents(Tail(stats), name)

transformCanvasDataSeriesToPostHogEvents(dataSeries, name) ==
    canvasEvents(dataSeries.stats, name)

\* --- the data series the canvas transform is applied to ---------------------

\* The stats buckets.  A Record keyed by identifiers is written as the list
\* of its values in key order.
CanvasStats ==
    LET totalStats ==
            {EmptyObject, ("revenue" :> 1), ("revenue" :> 1) @@ ("entries" :> 2)}
        variants ==
            {("name" :> n) : n \in {"A", "B"}}
            \cup {("name" :> n) @@ ("revenue" :> r) : n \in {"A", "B"}, r \in {1, 2}}
        messages ==
            {EmptyObject}
            \cup {("email" :> l) : l \in SeqsUpTo(Variations, MaxVariations)}
            \cup {("email" :> <<v>>) @@ ("ios_push" :> <<v>>) : v \in Variations}
        steps ==
            {("name" :> n) @@ ("messages" :> m) : n \in {"S", "T"}, m \in messages}
            \cup {("name" :> n) @@ ("revenue" :> 3) @@ ("messages" :> m) :
                     n \in {"S", "T"}, m \in messages}
        laterSteps ==
            {("name" :> n) @@ ("revenue" :> 4)
                @@ ("messages" :>
                       ("email" :> <<("variation_name" :> "V") @@ ("sent" :> 2)>>)) :
             n \in {"S", "T"}}
        stepLists ==
            {<<>>} \cup {<<s>> : s \in steps}
                   \cup {<<s, t>> : s \in steps, t \in laterSteps}
        time == ("time" :> "2022-03-28")
        series ==
            {time}
            \cup {time @@ ("total_stats" :> t) @@ ("variant_stats" :> v) :
                     t \in totalStats, v \in SeqsUpTo(variants, MaxVariants)}
            \cup {time @@ ("step_stats" :> s) : s \in stepLists}
            \cup {time @@ ("total_stats" :> ("revenue" :> 1))
                       @@ ("variant_stats" :> <<v>>) @@ ("step_stats" :> <<s>>) :
                     v \in variants, s \in laterSteps}
        later == {("time" :> "2022-03-29") @@ ("total_stats" :> ("revenue" :> 5))}
    IN  {<<>>} \cup {<<s>> : s \in series} \cup {<<s, t>> : s \in series, t \in later}

InitCanvas ==
    /\ ExportIdle
    /\ now = DateOf(19524, 0)
    /\ timezoneOffset = 0
    /\ ListingIdle
    /\ triggered = <<>>
    /\ jobState = <<>>
    /\ brazeCalls = <<>>
    /\ answers = <<>>
    /\ captured = <<>>
    /\ httpResponse = NoBody
    /\ settlement = NoBody
    /\ errorsLogged = FALSE
    /\ formatted = NoBody
    /\ op = "idle"
    /\ result = [kind |-> "none"]
    /\ \E stats \in CanvasStats :
          dataSeriesIn = [dataSeries |-> [name |-> "Welcome", stats |-> stats],
                          name |-> "Welcome"]
    /\ postHogEvents = Undefined

TransformCanvas ==
    /\ op = "idle"
    /\ op' = "transformCanvasDataSeriesToPostHogEvents"
    /\ postHogEvents' =
          Some(transformCanvasDataSeriesToPostHogEvents(dataSeriesIn.dataSeries,
                                                        dataSeriesIn.name))
    /\ UNCHANGED <<exportVars, result, importVars, httpResponse, settlement,
                   errorsLogged, formatted, trackVars, dataSeriesIn>>

NextCanvas == TransformCanvas

SpecCanvas == InitCanvas /\ [][NextCanvas]_vars

\* --- C26 ---------------------------------------------------------------------

CanvasTransformed == op = "transformCanvasDataSeriesToPostHogEvents"

Bucket(series, key) == IF key \in DOMAIN series THEN series[key] ELSE <<>>

\* The channel segment of one entry of a step's messages.
ChannelSegment(c, entry) ==
    IF "variation_name" \in DOMAIN entry
    THEN c \o ":" \o entry["variation_name"] ELSE c

\* The entries of the messages of the steps, as <<step, channel, entry>>.
StepEntries(steps) ==
    {x \in (DOMAIN steps) \X {"email", "ios_push"} \X (1..MaxVariations + 1) :
        /\ x[2] \in DOMAIN steps[x[1]]["messages"]
        /\ x[3] \in DOMAIN steps[x[1]]["messages"][x[2]]}

\* Every write the claim describes, as key, value and position in the
\* series.
TotalWrites(series) ==
    {[key |-> "total_stats:" \o f, value |-> series["total_stats"][f], rank |-> 0] :
        f \in IF "total_stats" \in DOMAIN series
              THEN DOMAIN series["total_stats"] ELSE {}}

VariantWrites(series) ==
    LET variants == Bucket(series, "variant_stats")
    IN  UNION {{[key |-> "variant_stats:" \o variants[i]["name"] \o ":" \o f,
                 value |-> variants[i][f], rank |-> i] :
                   f \in DOMAIN variants[i] \ {"name"}} : i \in DOMAIN variants}

StepWrites(series) ==
    LET steps == Bucket(series, "step_stats")
    IN  UNION {{[key |-> "step_stats:" \o steps[i]["name"] \o ":" \o f,
                 value |-> steps[i][f], rank |-> i] :
                   f \in DOMAIN steps[i] \ {"name", "messages"}} : i \in DOMAIN steps}

StepMessageWrites(series) ==
    LET steps == Bucket(series, "step_stats")
    IN  UNION {LET entry == steps[x[1]]["messages"][x[2]][x[3]]
               IN  {[key |-> "step_stats:" \o steps[x[1]]["name"] \o ":"
                                 \o ChannelSegment(x[2], entry) \o ":" \o f,
                     value |-> entry[f], rank |-> 10 * x[1] + x[3]] :
                       f \in DOMAIN entry \ {"variation_name"}} :
               x \in StepEntries(steps)}

CanvasWrites(series) ==
    TotalWrites(series) \cup VariantWrites(series)
    \cup StepWrites(series) \cup StepMessageWrites(series)

\* The keys under which the namespace fields would appear, had they been
\* written as stats.
NamespaceKeys(series) ==
    LET variants == Bucket(series, "variant_stats")
        steps == Bucket(series, "step_stats")
    IN  {"variant_stats:" \o variants[i]["name"] \o ":name" : i \in DOMAIN variants}
        \cup {"step_stats:" \o steps[i]["name"] \o ":" \o f :
                 i \in DOMAIN steps, f \in {"name", "messages"}}
        \cup {"step_stats:" \o steps[x[1]]["name"] \o ":"
                 \o ChannelSegment(x[2], steps[x[1]]["messages"][x[2]][x[3]])
                 \o ":variation_name" : x \in StepEntries(steps)}

\* C26: transformCanvasDataSeriesToPostHogEvents gives one event per stats
\* bucket whose property keys are exactly "total_stats:<field>",
\* "variant_stats:<variantName>:<field>", "step_stats:<stepName>:<field>" for
\* the step's fields other than name and messages, and
\* "step_stats:<stepName>:<channel>[:<variationName>]:<field>" for the step's
\* message stats, each with the value of the (last) field written under that
\* key; name, messages and variation_name are never written as keys or
\* values.
C26_CanvasFlattening ==
    CanvasTransformed =>
       LET stats == dataSeriesIn.dataSeries.stats
           events == postHogEvents.value
       IN  /\ Len(events) = Len(stats)
           /\ \A n \in DOMAIN stats :
                 LET writes == CanvasWrites(stats[n])
                     properties == events[n].properties
                 IN  /\ DOMAIN properties = {w.key : w \in writes}
                     /\ DOMAIN properties \cap NamespaceKeys(stats[n]) = {}
                     /\ DOMAIN properties \cap {"name", "messages", "variation_name",
                                                "time", "total_stats", "variant_stats",
                                                "step_stats"} = {}
                     /\ \A w \in writes :
                           (\A x \in writes : x.key = w.key => x.rank <= w.rank)
                              => properties[w.key] = w.value

\* A bucket with total stats, a named variant and a step with a named
\* variation under email has been transformed.
C26_Witness ==
    /\ CanvasTransformed
    /\ Len(postHogEvents.value) >= 1
    /\ {"total_stats:revenue", "variant_stats:A:revenue", "step_stats:S:revenue",
        "step_stats:S:email:V:sent"} \subseteq DOMAIN postHogEvents.value[1].properties

\* ---------------------------------------------------------------------------
\* exportEvents, with the objects it batches (src/index.ts 200-250)
\* ---------------------------------------------------------------------------

\* The objects of the body shaped for the i-th inbound event.  Two inbound
\* events may shape to equal objects; `input` stands for the identity of the
\* object.
Tagged(b, i) ==
    [attributes |-> [k \in DOMAIN b.attributes |->
                        [input |-> i, object |-> b.attributes[k]]],
     events |-> [k \in DOMAIN b.events |->
                    [input |-> i, object |-> b.events[k]]]]

\* variant of the callback below that overwrites the last batch
batchStepOverwriting(batches, entry) ==
    IF IsEmptyEntry(Lengths(entry)) THEN batches
    ELSE IF NeedsNewBatch([i \in DOMAIN batches |-> Lengths(batches[i])],
                          Lengths(entry))
         THEN Append(batches, entry)
    ELSE [batches EXCEPT ![Len(batches)] = entry]

\* the callback of brazeRequestBodies.reduce (lines 220-236), on the arrays
\* themselves: a new batch holds copies of the entry's arrays, otherwise the
\* entry's objects are pushed to the end of the last batch's arrays
batchStep(batches, entry) ==
    IF IsEmptyEntry(Lengths(entry)) THEN batches
    ELSE IF NeedsNewBatch([i \in DOMAIN batches |-> Lengths(batches[i])],
                          Lengths(entry))
         THEN Append(batches, entry)
    ELSE [batches EXCEPT ![Len(batches)] =
            [attributes |-> @.attributes \o entry.attributes,
             events |-> @.events \o entry.events]]

\* the reduce over bodies[lo..hi], left to right; the range is halved only
\* to keep the evaluation shallow
RECURSIVE batchRange(_, _, _, _)
batchRange(bodies, lo, hi, batches) ==
    IF lo > hi \/ Len(batches) >= lo THEN batches
    ELSE IF lo = hi THEN batchStep(batches, bodies[lo])
    ELSE batchRange(bodies, (lo + hi) \div 2 + 1, hi,
                    batchRange(bodies, lo, (lo + hi) \div 2, batches))

\* crypto.createHash('sha256')...digest('hex'): a hexadecimal string
Digests == {"9f86d081", "60303ae2"}

\* `${requestId}-${idx}`
requestIdOf(requestId, idx) == requestId \o "-" \o ToString(idx)

\* batchedBodies.map((body, idx) => fetchBraze('/users/track', ..., 'POST',
\* `${requestId}-${idx}`))
trackRequests(batches, requestId) ==
    [i \in 1..Len(batches) |->
        [idx |-> i - 1, body |-> batches[i], state |-> "inflight",
         requestId |-> requestIdOf(requestId, i - 1)]]

\* the input lists: every list of up to three inbound events, and lists long
\* enough to fill batches
DeliverInputs ==
    ExportInputs
    \cup SeqsUpTo(BatchEvents, 3)
    \cup {Rep(EventAttribute, batchSize) \o <<e1, e2>> : e1, e2 \in BatchEvents}
    \cup {[i \in 1..(2 * batchSize + 2) |->
              IF i % 2 = 1 THEN EventAttribute ELSE EventOnly],
          [i \in 1..(2 * batchSize + 2) |->
              IF i % 3 = 0 THEN EventNone ELSE EventBoth],
          Rep(EventOnly, batchSize - 1) \o Rep(EventAttribute, batchSize + 1)
             \o Rep(EventBoth, 2)}

InitDeliver ==
    /\ config \in ExportConfigs
    /\ variant \in Variants
    /\ pluginEvent = NoBody
    /\ body = NoBody
    /\ acc = <<>>
    /\ curr = NoBody
    /\ op = "idle"
    /\ requests = <<>>
    /\ result = "none"
    /\ ImportIdle

\* exportEvents, lines 200-250, up to the await of Promise.all
DispatchBatches ==
    /\ op = "idle"
    /\ op' = "exportEvents"
    /\ \E pluginEvents \in DeliverInputs, requestId \in Digests :
          LET brazeRequestBodies ==
                  [i \in DOMAIN pluginEvents |->
                      Tagged(generateBrazeRequestBody(pluginEvents[i], config), i)]
              batchedBodies == batchRange(brazeRequestBodies, 1,
                                          Len(brazeRequestBodies), <<>>)
          IN  /\ pluginEvent' = pluginEvents
              /\ IF Len(pluginEvents) = 0 \/ nothingToExport(brazeRequestBodies)
                 THEN /\ acc' = <<>>
                      /\ requests' = <<>>
                      /\ result' = "returned"
                 ELSE /\ acc' = batchedBodies
                      /\ requests' = trackRequests(batchedBodies, requestId)
                      /\ result' = "pending"
    /\ UNCHANGED <<config, variant, body, curr, importVars, jobVars>>

NextDeliver == DispatchBatches

SpecDeliver == InitDeliver /\ [][NextDeliver]_vars

\* --- C27 ---------------------------------------------------------------------

Dispatched == op = "exportEvents"

\* The objects shaped for the inbound events lo..hi, in input order.
RECURSIVE ShapedRange(_, _, _, _)
ShapedRange(pluginEvents, field, lo, hi) ==
    IF lo > hi THEN <<>>
    ELSE IF lo = hi
         THEN Tagged(generateBrazeRequestBody(pluginEvents[lo], config), lo)[field]
    ELSE ShapedRange(pluginEvents, field, lo, (lo + hi) \div 2)
         \o ShapedRange(pluginEvents, field, (lo + hi) \div 2 + 1, hi)

Shaped27(field) == ShapedRange(pluginEvent, field, 1, Len(pluginEvent))

\* The objects sent, request after request in the order of dispatch.
RECURSIVE SentUpTo(_, _)
SentUpTo(field, n) ==
    IF n = 0 THEN <<>> ELSE SentUpTo(field, n - 1) \o requests[n].body[field]

\* C27: the attribute objects sent by the requests of one exportEvents call,
\* read request after request, are exactly the attribute objects shaped for
\* the inbound events, each once and in input order, and so are the event
\* objects; there is one request per batch, carrying that batch, and no two
\* requests of the call have the same request id.
C27_EveryObjectOnceInOrder ==
    Dispatched =>
       /\ SentUpTo("attributes", Len(requests)) = Shaped27("attributes")
       /\ SentUpTo("events", Len(requests)) = Shaped27("events")
       /\ Len(requests) = Len(acc)
       /\ \A i \in DOMAIN requests :
             /\ requests[i].body = acc[i]
             /\ \A j \in DOMAIN requests :
                   i # j => requests[i].requestId # requests[j].requestId

\* A call whose objects were spread over at least two requests, the first of
\* them holding objects of several inbound events.
C27_Witness ==
    /\ Dispatched
    /\ Len(requests) >= 2
    /\ Len(requests[1].body.attributes) >= batchSize
    /\ Len(requests[2].body.events) >= 1
    /\ Len(Shaped27("events")) >= 2

\* ---------------------------------------------------------------------------
\* Termination of paginateItems (src/index.ts 438-455)
\* ---------------------------------------------------------------------------

\* The awaited callback settles, and the statement after the loop runs once
\* the loop is left: the continuation of an await is run by the event loop
\* when the promise has settled.
SpecPaginateFair ==
    /\ InitPaginate
    /\ [][NextPaginate]_vars
    /\ WF_vars(Callback \/ CallbackThrows)
    /\ WF_vars(ReturnItems)

\* --- C30 ---------------------------------------------------------------------

Paginating == op = "paginateItems"

Returned == Paginating /\ result = "returned"

LastPage == fetched[Len(fetched)]

AllFull == \A i \in DOMAIN fetched : Len(fetched[i]) = paginateAfter

\* C30 as stated: paginateItems returns after exactly k callback calls,
\* where page k is the first page strictly shorter than the threshold; so
\* the page after which it returns is strictly shorter than the threshold.
C30_Original_ReturnsAtFirstShorterPage ==
    Returned => (fetched # <<>> /\ Len(LastPage) < paginateAfter)

\* C30 (amended): paginateItems terminates whenever a callback call resolves
\* to a page whose length differs from the threshold: if page k is the first
\* such page, it makes exactly k callback calls, makes no call after it, and
\* then returns; while every page so far has exactly threshold items it does
\* not return and calls the callback for the next page, however many pages
\* came before.
C30_TerminatesAtFirstDifferingPage ==
    /\ [](Returned =>
            /\ fetched # <<>>
            /\ Len(calls) = Len(fetched)
            /\ Len(LastPage) # paginateAfter
            /\ \A i \in 1..(Len(fetched) - 1) : Len(fetched[i]) = paginateAfter)
    /\ [][(Paginating /\ fetched # <<>> /\ Len(LastPage) # paginateAfter)
             => calls' = calls]_vars
    /\ (Paginating /\ fetched # <<>> /\ Len(LastPage) # paginateAfter) ~> Returned
    /\ []((Paginating /\ result = "pending" /\ AllFull) =>
            /\ ~ENABLED ReturnItems
            /\ currentPage < MaxPages => ENABLED Callback)

\* a full page was followed by a second, shorter page, after which the call
\* returned
C30_Witness ==
    /\ Returned
    /\ calls = <<1, 2>>
    /\ Len(fetched[1]) = paginateAfter
    /\ Len(fetched[2]) < paginateAfter

====
